---- MODULE Spec2Model ----
(***************************************************************************)
(* Speed-share transfer engine: throttledSend's flow control, the          *)
(* IceStunKeyStore session-key cache, processChunksParallel's batching and *)
(* the AES-GCM envelope of encryptAesGcmOptimized / decryptAesGcmOptimized,*)
(* progressiveFileTransfer's send loop, and the codec functions            *)
(* validateFileMetadata, concatUint8Arrays / splitUint8Array,              *)
(* createOptimizedChunks, calculateOptimalChunkSize and                    *)
(* measureNetworkAndOptimizeChunkSize.                                     *)
(* Each part is a state machine of its own (Spec, SpecKeyStore,            *)
(* SpecParallel, SpecCipher, SpecTransfer, ...); while one runs, the       *)
(* variables of the others stay at their initial values.                   *)
(***************************************************************************)
EXTENDS Integers, Sequences, FiniteSets, TLC

VARIABLES
  \* ---- throttledSend (concatBytes.ts 153-210) and its RTCDataChannel
  fileSize,          \* data.byteLength
  chunkSize,         \* the chunkSize argument
  currentPosition,   \* let currentPosition
  sentChunks,        \* let sentChunks
  promise,           \* the returned promise: "none", "pending", "resolved", "rejected"
  timers,            \* pending setTimeout(sendNextChunk, 0) callbacks
  bufferedAmount,    \* channel.bufferedAmount
  threshold,         \* channel.bufferedAmountLowThreshold
  handler,           \* channel.onbufferedamountlow = sendNextChunk (TRUE) or null (FALSE)
  lowEvents,         \* bufferedamountlow events queued by the channel, not yet dispatched
  readyState,        \* channel.readyState: "open" or "closed"
  sentLog,           \* history: the messages channel.send accepted, in order
  sendCalls,         \* history: channel.send calls (throwing ones included)
  failedSends,       \* history: channel.send calls that threw
  invocations,       \* history: sendNextChunk invocations
  \* ---- IceStunKeyStore and the session-key functions (crypto.ts)
  isInitialized,     \* IceStunKeyStore.isInitialized
  sessionKeyCache,   \* IceStunKeyStore.sessionKeyCache (NoKey is null)
  peerConnections,   \* history: RTCPeerConnection objects constructed by initialize
  now,               \* Date.now()
  nextKeyId,         \* history: keys generated so far (the fresh random part of a key)
  createdAt,         \* history: Date.now() when the cached key was stored
  lastCheck,         \* history: the last completed checkAndRotateSessionKey call
  calls,             \* the async calls in progress, per caller
  callsMade,         \* history: calls started
  \* ---- processChunksParallel (concatBytes.ts 54-83)
  chunks,            \* the chunks argument
  concurrency,       \* the concurrency argument
  index,             \* let index
  results,           \* const results
  batch,             \* const batch of the running processNextBatch: chunk indices
  procState,         \* per chunk: "idle", "running", "resolved", "rejected"
  parState,          \* "init", "awaiting", "done", "failed"
  startLog,          \* history: chunk indices in the order processor was invoked
  doneLog,           \* history: chunk indices in the order their promises resolved
  batchNo,           \* history: per chunk, the number of the batch that started it
  \* ---- encryptAesGcmOptimized / decryptAesGcmOptimized (crypto.ts 137-262)
  aesKey,            \* the CryptoKey
  message,           \* the plaintext bytes
  encChunkSize,      \* the chunkSize argument of the encryption
  envelope,          \* the encryption's result
  decrypted,         \* the decryption's result
  cipherState,       \* "init", "encrypted", "decrypted", "decryptFailed"
  encryptCalls,      \* history: key and iv of every crypto.subtle.encrypt call
  \* ---- progressiveFileTransfer (concatBytes.ts 291-319) and SendOptions.signal
  dataByteLength,    \* data.byteLength (const fileSize)
  transferChunkSize, \* the chunkSize argument
  onProgress,        \* whether the onProgress callback was supplied
  transferOffset,    \* let offset
  lastReportedProgress, \* let lastReportedProgress
  transferState,     \* "init", "awaitSender", "resolved", "rejected"
  senderCalls,       \* history: calls of sender so far
  progressLog,       \* history: the percentages passed to onProgress, in order
  signalAborted,     \* SendOptions.signal.aborted (configs.ts 36)
  abortedAt,         \* history: senderCalls when the signal was raised
  \* ---- validateFileMetadata (App.tsx 25-29)
  metadataSize,      \* metadata.size
  maxSize,           \* the maxSize argument: <<>> (undefined) or <<n>>
  validation,        \* "none" before the call, then "error" or "undefined"
  \* ---- concatUint8Arrays / splitUint8Array (concatBytes.ts 3-29)
  array1,            \* the array1 argument, as runs of bytes
  array2,            \* the array2 argument
  combinedArray,     \* concatUint8Arrays' result, or the buffer handed to splitUint8Array
  splitResult,       \* splitUint8Array's outcome
  packState,         \* "idle", "pair", "buffer", "combined", "roundTrip", "split"
  \* ---- createOptimizedChunks (concatBytes.ts 35-51)
  viewedByteLength,  \* data.byteLength
  viewChunkSize,     \* the chunkSize argument
  views,             \* the returned subarray views, each [begin, end) of data
  viewState,         \* "init", "returned"
  \* ---- calculateOptimalChunkSize (uniqueCode.ts 101-111)
  tierSizes,         \* two fileSize arguments
  tierResults,       \* the two results
  tierState,         \* "init", "returned"
  \* ---- measureNetworkAndOptimizeChunkSize (concatBytes.ts 218-281)
  probeFileSize,     \* the fileSize argument
  optimizedChunkSize, \* let optimizedChunkSize
  duration,          \* const duration, in ms (-1 before it is computed)
  probeState,        \* "init", "awaitProbe", "returned"
  probeOutcome,      \* history: how the probe ended
  \* ---- createReliableDataChannel (configs.ts 204-248)
  maxRetries,        \* the maxRetries argument
  retries,           \* let retries
  dataChannels,      \* per attempt, the channel createDataChannel returned
  channelState,      \* "init", "awaitOpen", "backoff", "returned", "thrown"
  channelClock,      \* ms since the call
  timeout,           \* when the pending setTimeout callback is due (-1: none)
  returnedChannel,   \* the attempt whose channel was returned (0: none)
  thrownError,       \* the error the call threw
  settledAt,         \* history: channelClock when the call returned or threw
  attemptLog,        \* history: channelClock at each createDataChannel call
  failureLog,        \* history: the error caught in each failed attempt, and when
  backoffLog,        \* history: the backoff delays waited, and from when
  \* ---- parseUniqueCode (uniqueCode.ts 40-65)
  sdp,               \* the sdp argument of generateUniqueCode
  options,           \* the options argument of generateUniqueCode
  code,              \* the code: generateUniqueCode's result, parseUniqueCode's argument
  codeState,         \* "generate", "generateThrew", "init", "returned", "threw"
  codeResult,        \* the object returned
  codeError,         \* the message of the Error thrown
  \* ---- the receiver of one file (ReceivingFile, uniqueCode.ts 139-142)
  sentFile,          \* the bytes the sender split into frames
  frameSize,         \* the negotiated chunk size
  receiverMaxSize,   \* the receiver's maximum file size
  onTheWire,         \* frames sent and not yet delivered
  receivedSize,      \* ReceivingFile.receivedSize
  receivedChunks,    \* ReceivingFile.receivedChunks: the stored frames
  assembledFile,     \* the byte stream assembled on completion
  receiverStatus     \* "Idle", "Receiving", "Success", "Failed"

sendVars == <<fileSize, chunkSize, currentPosition, sentChunks, promise, timers,
              bufferedAmount, threshold, handler, lowEvents, readyState, sentLog,
              sendCalls, failedSends, invocations>>
keyVars == <<isInitialized, sessionKeyCache, peerConnections, now, nextKeyId,
             createdAt, lastCheck, calls, callsMade>>
parVars == <<chunks, concurrency, index, results, batch, procState, parState,
             startLog, doneLog, batchNo>>
cipherVars == <<aesKey, message, encChunkSize, envelope, decrypted, cipherState,
                encryptCalls>>
transferVars == <<dataByteLength, transferChunkSize, onProgress, transferOffset,
                  lastReportedProgress, transferState, senderCalls, progressLog,
                  signalAborted, abortedAt>>
validateVars == <<metadataSize, maxSize, validation>>
packVars == <<array1, array2, combinedArray, splitResult, packState>>
viewVars == <<viewedByteLength, viewChunkSize, views, viewState>>
tierVars == <<tierSizes, tierResults, tierState>>
probeVars == <<probeFileSize, optimizedChunkSize, duration, probeState, probeOutcome>>
codecVars == <<validateVars, packVars, viewVars, tierVars, probeVars>>
channelVars == <<maxRetries, retries, dataChannels, channelState, channelClock,
                 timeout, returnedChannel, thrownError, settledAt, attemptLog,
                 failureLog, backoffLog>>
codeVars == <<sdp, options, code, codeState, codeResult, codeError>>
receiverVars == <<sentFile, frameSize, receiverMaxSize, onTheWire, receivedSize,
                  receivedChunks, assembledFile, receiverStatus>>
linkVars == <<channelVars, codeVars, receiverVars>>
vars == <<sendVars, keyVars, parVars, cipherVars, transferVars, codecVars, linkVars>>

\* While one part runs, the others stand still.
SendOnly ==
  UNCHANGED <<keyVars, parVars, cipherVars, transferVars, codecVars, linkVars>>
KeyStoreOnly ==
  UNCHANGED <<sendVars, parVars, cipherVars, transferVars, codecVars, linkVars>>
ParallelOnly ==
  UNCHANGED <<sendVars, keyVars, cipherVars, transferVars, codecVars, linkVars>>
CipherOnly ==
  UNCHANGED <<sendVars, keyVars, parVars, transferVars, codecVars, linkVars>>
EngineIdle == UNCHANGED <<sendVars, keyVars, parVars, cipherVars, linkVars>>
TransferOnly == EngineIdle /\ UNCHANGED codecVars
ValidateOnly ==
  EngineIdle /\ UNCHANGED <<transferVars, packVars, viewVars, tierVars, probeVars>>
PackOnly ==
  EngineIdle /\ UNCHANGED <<transferVars, validateVars, viewVars, tierVars, probeVars>>
ViewOnly ==
  EngineIdle /\ UNCHANGED <<transferVars, validateVars, packVars, tierVars, probeVars>>
TierOnly ==
  EngineIdle /\ UNCHANGED <<transferVars, validateVars, packVars, viewVars, probeVars>>
ProbeOnly ==
  EngineIdle /\ UNCHANGED <<transferVars, validateVars, packVars, viewVars, tierVars>>
OtherPartsUnchanged ==
  UNCHANGED <<sendVars, keyVars, parVars, cipherVars, transferVars, codecVars>>
ChannelOnly == OtherPartsUnchanged /\ UNCHANGED <<codeVars, receiverVars>>
CodeOnly == OtherPartsUnchanged /\ UNCHANGED <<channelVars, receiverVars>>
ReceiverOnly == OtherPartsUnchanged /\ UNCHANGED <<channelVars, codeVars>>

Min(a, b) == IF a <= b THEN a ELSE b

(***************************************************************************)
(* throttledSend                                                           *)
(***************************************************************************)
MaxFileSize == 5
MaxChunkSize == 2
MaxThreshold == 2
MaxInitBuffered == 3

\* configs.ts 32: retryAttempts: 3, "Auto-retry failed chunks"
RetryAttempts == 3

SendIdle ==
  /\ fileSize = 0 /\ chunkSize = 1 /\ currentPosition = 0 /\ sentChunks = 0
  /\ promise = "none" /\ timers = 0 /\ bufferedAmount = 0 /\ threshold = 0
  /\ handler = FALSE /\ lowEvents = 0 /\ sentLog = <<>> /\ sendCalls = 0
  /\ failedSends = 0 /\ invocations = 0 /\ readyState = "open"

\* The state in which throttledSend(channel, data, chunkSize) is called: any data
\* length, any chunk size, a channel with any threshold and any amount already
\* buffered.
SendInit ==
  /\ fileSize \in 0..MaxFileSize
  /\ chunkSize \in 1..MaxChunkSize
  /\ threshold \in 0..MaxThreshold
  /\ bufferedAmount \in 0..MaxInitBuffered
  /\ currentPosition = 0 /\ sentChunks = 0
  /\ promise = "none" /\ timers = 0
  /\ handler = FALSE /\ lowEvents = 0 /\ sentLog = <<>> /\ sendCalls = 0
  /\ failedSends = 0 /\ invocations = 0 /\ readyState = "open"

\* resolve() and reject(error) settle a promise once; later calls do nothing.
Settle(p, outcome) == IF p = "pending" THEN outcome ELSE p

\* const end = Math.min(currentPosition + chunkSize, fileSize)
ChunkEndNoClamp(pos) == pos + chunkSize
ChunkEnd(pos) == Min(pos + chunkSize, fileSize)

\* if (channel.bufferedAmount > channel.bufferedAmountLowThreshold)
BufferAboveMarkNever == FALSE
BufferAtOrAboveMark == bufferedAmount >= threshold
BufferAboveMark == bufferedAmount > threshold

\* One invocation of sendNextChunk. p is the promise and t the number of pending
\* timers when the invocation starts; throws is the channel's answer to send.
SendNextChunk(p, t, throws) ==
  /\ invocations' = invocations + 1
  /\ IF currentPosition >= fileSize
       THEN /\ promise' = Settle(p, "resolved")
            /\ timers' = t
            /\ UNCHANGED <<currentPosition, sentChunks, bufferedAmount, handler,
                           sentLog, sendCalls, failedSends>>
     ELSE IF BufferAboveMark
       THEN /\ handler' = TRUE
            /\ promise' = p
            /\ timers' = t
            /\ UNCHANGED <<currentPosition, sentChunks, bufferedAmount,
                           sentLog, sendCalls, failedSends>>
     ELSE IF throws
       THEN /\ sendCalls' = sendCalls + 1
            /\ failedSends' = failedSends + 1
            /\ handler' = FALSE
            /\ promise' = Settle(p, "rejected")
            /\ timers' = t
            /\ UNCHANGED <<currentPosition, sentChunks, bufferedAmount, sentLog>>
     ELSE LET end == ChunkEnd(currentPosition) IN
            /\ sendCalls' = sendCalls + 1
            /\ sentLog' = Append(sentLog, [from |-> currentPosition, to |-> end,
                                           buffered |-> bufferedAmount])
            /\ bufferedAmount' = bufferedAmount + (end - currentPosition)
            /\ sentChunks' = sentChunks + 1
            /\ currentPosition' = end
            /\ IF end >= fileSize
                 THEN handler' = FALSE /\ promise' = Settle(p, "resolved")
                      /\ timers' = t
                 ELSE handler' = handler /\ promise' = p /\ timers' = t + 1
            /\ UNCHANGED failedSends
  /\ UNCHANGED <<fileSize, chunkSize, threshold, readyState>>

\* channel.send may throw on an open channel (its buffer is full, the message
\* is too large) and always throws on a closed one (InvalidStateError).
SendThrows == IF readyState = "open" THEN BOOLEAN ELSE {TRUE}

\* throttledSend is called: the promise executor runs sendNextChunk at once.
ThrottledSend ==
  /\ promise = "none"
  /\ \E throws \in SendThrows : SendNextChunk("pending", timers, throws)
  /\ UNCHANGED lowEvents
  /\ SendOnly

\* A setTimeout(sendNextChunk, 0) callback runs.
TimerFires ==
  /\ timers > 0
  /\ \E throws \in SendThrows : SendNextChunk(promise, timers - 1, throws)
  /\ UNCHANGED lowEvents
  /\ SendOnly

\* The channel dispatches a queued bufferedamountlow event to the handler that is
\* registered at that moment.
BufferedAmountLowFires ==
  /\ lowEvents > 0
  /\ handler
  /\ lowEvents' = lowEvents - 1
  /\ \E throws \in SendThrows : SendNextChunk(promise, timers, throws)
  /\ SendOnly

\* The event is dispatched while no handler is registered: nothing runs.
BufferedAmountLowUnhandled ==
  /\ lowEvents > 0
  /\ ~handler
  /\ lowEvents' = lowEvents - 1
  /\ UNCHANGED <<fileSize, chunkSize, currentPosition, sentChunks, promise, timers,
                 bufferedAmount, threshold, handler, readyState, sentLog,
                 sendCalls, failedSends, invocations>>
  /\ SendOnly

\* The open channel transmits n buffered bytes; it queues a bufferedamountlow
\* event when the amount falls from above the threshold to at or below it.
ChannelDrains ==
  /\ readyState = "open"
  /\ bufferedAmount > 0
  /\ \E n \in 1..bufferedAmount :
       /\ bufferedAmount' = bufferedAmount - n
       /\ lowEvents' = IF bufferedAmount > threshold /\ bufferedAmount - n <= threshold
                         THEN lowEvents + 1 ELSE lowEvents
  /\ UNCHANGED <<fileSize, chunkSize, currentPosition, sentChunks, promise, timers,
                 threshold, handler, readyState, sentLog, sendCalls, failedSends,
                 invocations>>
  /\ SendOnly

\* The channel closes or fails while throttledSend runs: it transmits nothing
\* more and queues no further event.  throttledSend registers no onclose and
\* no onerror handler, so no code of it runs.
ChannelCloses ==
  /\ promise = "pending"
  /\ readyState = "open"
  /\ readyState' = "closed"
  /\ UNCHANGED <<fileSize, chunkSize, currentPosition, sentChunks, promise, timers,
                 bufferedAmount, threshold, handler, lowEvents, sentLog, sendCalls,
                 failedSends, invocations>>
  /\ SendOnly

SendNext ==
  \/ ThrottledSend
  \/ TimerFires
  \/ BufferedAmountLowFires
  \/ BufferedAmountLowUnhandled
  \/ ChannelDrains
  \/ ChannelCloses

(***************************************************************************)
(* IceStunKeyStore, rotateSessionKey, checkAndRotateSessionKey             *)
(*                                                                         *)
(* A session key is the base64 string of 32 random bytes.  The model keeps *)
(* its leading characters (text) and stands for the remaining random       *)
(* characters by a serial number (id): two generated keys never share it.  *)
(* IceStunKeyStore.clearSessionKey has no caller and no exported wrapper,  *)
(* so the cache is written by storeSessionKey alone.                       *)
(***************************************************************************)
Callers == {1, 2}
MaxCalls == 2
MaxMinutes == 1
MaxTtl == 1

\* crypto.ts 472: sessionKeyBase64.substring(0, 13).  A 13-digit number does not
\* fit TLC's integers; the model reads 6 characters and runs its clock below 10^6.
TimestampChars == 6
\* crypto.ts 476: sessionExpiryMinutes * 60 * 1000
MsPerMinute == 60 * 1000

NoKey == [text |-> <<>>, id |-> -1]

DigitChars == <<"0", "1", "2", "3", "4", "5", "6", "7", "8", "9">>
IsDigit(c) == \E d \in 1..10 : DigitChars[d] = c
DigitVal(c) == (CHOOSE d \in 1..10 : DigitChars[d] = c) - 1

RECURSIVE Pow10(_)
Pow10(n) == IF n = 0 THEN 1 ELSE 10 * Pow10(n - 1)

\* The decimal digits of t, zero-padded to TimestampChars characters: what
\* Date.now().toString() is at the scale of the model.
Stamp(t) ==
  [i \in 1..TimestampChars |->
     DigitChars[((t \div Pow10(TimestampChars - i)) % 10) + 1]]

\* The leading digits of s as a number, acc being the digits read so far.
RECURSIVE ReadDigits(_, _, _)
ReadDigits(s, i, acc) ==
  IF i > Len(s) \/ ~IsDigit(s[i]) THEN acc
  ELSE ReadDigits(s, i + 1, 10 * acc + DigitVal(s[i]))

\* parseInt(s, 10): an optional sign, then the longest run of digits; NaN when the
\* run is empty.
ParseInt(s) ==
  LET signed == Len(s) >= 1 /\ s[1] \in {"+", "-"}
      first == IF signed THEN 2 ELSE 1
      mag == ReadDigits(s, first, 0)
  IN IF first > Len(s) \/ ~IsDigit(s[first])
       THEN [isNaN |-> TRUE, value |-> 0]
       ELSE [isNaN |-> FALSE,
             value |-> IF signed /\ s[1] = "-" THEN 0 - mag ELSE mag]

\* sessionKeyBase64.substring(0, 13)
Substring13(text) == SubSeq(text, 1, Min(TimestampChars, Len(text)))

\* crypto.ts 472-476: isNaN(timestamp) || now - timestamp > sessionExpiryMinutes * 60 * 1000
ExpiredIgnoringNaN(key, ttl, t) ==
  LET timestamp == ParseInt(Substring13(key.text))
  IN ~timestamp.isNaN /\ t - timestamp.value > ttl * MsPerMinute
Expired(key, ttl, t) ==
  LET timestamp == ParseInt(Substring13(key.text))
  IN timestamp.isNaN \/ t - timestamp.value > ttl * MsPerMinute

\* The leading characters of a generated key: random base64, here letters only, or
\* a sign and a digit followed by letters.
GeneratedTexts ==
  { <<"Q", "U", "J", "D", "R", "E">>,
    <<"+", "7", "K", "x", "2", "z">> }

\* The leading characters of a key a caller hands to setSessionKeyInIceStun: the
\* digits of the time t of the call, or digits that read as a time far ahead.
SuppliedTexts(t) ==
  { Stamp(t),
    <<"9", "9", "9", "9", "9", "9">> }

\* One async call: the exported function called (op), where it is suspended (pc),
\* whether the keystore method it awaits stores or retrieves (phase), the key it
\* generated or was given (key), sessionExpiryMinutes (ttl), whether it runs inside
\* the try block of checkAndRotateSessionKey (inTry), the key retrieveSessionKey
\* returned to it (found) and Date.now() at that moment (decidedAt).
\* History: how often it called rotateSessionKey (rotations), how long the key it
\* found had been in the cache (age), and whether it is a checkAndRotateSessionKey
\* call that follows a completed one with the same ttl, no key stored in between
\* by anybody else (afterCheck).
IdleCall ==
  [op |-> "none", pc |-> "idle", phase |-> "none", key |-> NoKey, ttl |-> 0,
   rotations |-> 0, inTry |-> FALSE, found |-> NoKey, decidedAt |-> 0,
   age |-> 0, afterCheck |-> FALSE]

KeyIdle ==
  /\ isInitialized = FALSE /\ sessionKeyCache = NoKey /\ peerConnections = 0
  /\ now = MsPerMinute /\ nextKeyId = 0 /\ createdAt = 0
  /\ lastCheck = [valid |-> FALSE, ttl |-> 0]
  /\ calls = [p \in Callers |-> IdleCall]
  /\ callsMade = 0

\* The module has just been loaded: IceStunKeyStore is not initialized, no key is
\* cached, nobody has called anything.
KeyInit == KeyIdle

\* Callers are interchangeable: the one that makes the very first call is named 1.
CanStart(p) ==
  /\ calls[p].pc \in {"idle", "done", "failed"}
  /\ callsMade < MaxCalls
  /\ p = 1 \/ callsMade > 0

\* initialize() up to its first await, run by call c: nothing to do when
\* isInitialized, otherwise a new RTCPeerConnection with its keystore channel, and
\* createOffer() is awaited.
InitializeEnter(c) ==
  IF isInitialized
    THEN [call |-> [c EXCEPT !.pc = "initialized"], created |-> 0]
    ELSE [call |-> [c EXCEPT !.pc = "createOffer"], created |-> 1]

\* setSessionKeyInIceStun(key) / storeSessionKey(key) is called.
StartStore(p) ==
  /\ CanStart(p)
  /\ \E text \in SuppliedTexts(now) :
       LET e == InitializeEnter([IdleCall EXCEPT !.op = "store", !.phase = "store",
                                                 !.key = [text |-> text, id |-> 0]])
       IN /\ calls' = [calls EXCEPT ![p] = e.call]
          /\ peerConnections' = peerConnections + e.created
  /\ callsMade' = callsMade + 1
  /\ UNCHANGED <<isInitialized, sessionKeyCache, now, nextKeyId, createdAt, lastCheck>>
  /\ KeyStoreOnly

\* getSessionKeyFromIceStun() / retrieveSessionKey() is called.
StartRetrieve(p) ==
  /\ CanStart(p)
  /\ LET e == InitializeEnter([IdleCall EXCEPT !.op = "retrieve", !.phase = "retrieve"])
     IN /\ calls' = [calls EXCEPT ![p] = e.call]
        /\ peerConnections' = peerConnections + e.created
  /\ callsMade' = callsMade + 1
  /\ UNCHANGED <<isInitialized, sessionKeyCache, now, nextKeyId, createdAt, lastCheck>>
  /\ KeyStoreOnly

\* rotateSessionKey() is called: generateSessionKey() is awaited.
StartRotate(p) ==
  /\ CanStart(p)
  /\ calls' = [calls EXCEPT ![p] = [IdleCall EXCEPT !.op = "rotate", !.pc = "generating",
                                                    !.rotations = 1]]
  /\ callsMade' = callsMade + 1
  /\ UNCHANGED <<isInitialized, sessionKeyCache, peerConnections, now, nextKeyId,
                 createdAt, lastCheck>>
  /\ KeyStoreOnly

\* checkAndRotateSessionKey(ttl) is called: it first awaits getSessionKeyFromIceStun().
StartCheck(p) ==
  /\ CanStart(p)
  /\ \E ttl \in 0..MaxTtl :
       LET e == InitializeEnter([IdleCall EXCEPT !.op = "check", !.phase = "retrieve",
                                   !.ttl = ttl,
                                   !.afterCheck = lastCheck.valid /\ lastCheck.ttl = ttl])
       IN /\ calls' = [calls EXCEPT ![p] = e.call]
          /\ peerConnections' = peerConnections + e.created
  /\ callsMade' = callsMade + 1
  /\ UNCHANGED <<isInitialized, sessionKeyCache, now, nextKeyId, createdAt, lastCheck>>
  /\ KeyStoreOnly

\* tripleLayerEncrypt(message, rsaPublicKey) is called and has encrypted the
\* message (generateAesKey and encryptAesGcmOptimized touch nothing of the key
\* store): it goes on to "get or create session key" and awaits
\* getSessionKeyFromIceStun() (line 384).
StartEncrypt(p) ==
  /\ CanStart(p)
  /\ LET e == InitializeEnter([IdleCall EXCEPT !.op = "encrypt", !.phase = "retrieve"])
     IN /\ calls' = [calls EXCEPT ![p] = e.call]
        /\ peerConnections' = peerConnections + e.created
  /\ callsMade' = callsMade + 1
  /\ UNCHANGED <<isInitialized, sessionKeyCache, now, nextKeyId, createdAt, lastCheck>>
  /\ KeyStoreOnly

\* generateSessionKey and exportSessionKeyToBase64 have resolved inside
\* rotateSessionKey: the new key's string exists and setSessionKeyInIceStun is
\* called with it.
KeyGenerated(p) ==
  /\ calls[p].pc = "generating"
  /\ \E text \in GeneratedTexts :
       LET e == InitializeEnter([calls[p] EXCEPT !.phase = "store",
                                   !.key = [text |-> text, id |-> nextKeyId + 1]])
       IN /\ calls' = [calls EXCEPT ![p] = e.call]
          /\ peerConnections' = peerConnections + e.created
  /\ nextKeyId' = nextKeyId + 1
  /\ UNCHANGED <<isInitialized, sessionKeyCache, now, createdAt, lastCheck, callsMade>>
  /\ KeyStoreOnly

\* An error leaves initialize and the store/retrieve awaiting it.  Inside the try
\* block of checkAndRotateSessionKey (line 477) it is caught and rotateSessionKey is
\* called again (line 481); anywhere else the call rejects.
Throw(c) ==
  IF c.op = "check" /\ c.inTry
    THEN [c EXCEPT !.pc = "generating", !.inTry = FALSE, !.rotations = @ + 1]
    ELSE [c EXCEPT !.pc = "failed"]

CreateOfferResolves(p) ==
  /\ calls[p].pc = "createOffer"
  /\ calls' = [calls EXCEPT ![p].pc = "setLocalDescription"]
  /\ UNCHANGED <<isInitialized, sessionKeyCache, peerConnections, now, nextKeyId,
                 createdAt, lastCheck, callsMade>>
  /\ KeyStoreOnly

CreateOfferRejects(p) ==
  /\ calls[p].pc = "createOffer"
  /\ calls' = [calls EXCEPT ![p] = Throw(calls[p])]
  /\ UNCHANGED <<isInitialized, sessionKeyCache, peerConnections, now, nextKeyId,
                 createdAt, lastCheck, callsMade>>
  /\ KeyStoreOnly

\* setLocalDescription resolved: this.isInitialized = true and initialize returns.
SetLocalDescriptionResolves(p) ==
  /\ calls[p].pc = "setLocalDescription"
  /\ isInitialized' = TRUE
  /\ calls' = [calls EXCEPT ![p].pc = "initialized"]
  /\ UNCHANGED <<sessionKeyCache, peerConnections, now, nextKeyId, createdAt,
                 lastCheck, callsMade>>
  /\ KeyStoreOnly

SetLocalDescriptionRejects(p) ==
  /\ calls[p].pc = "setLocalDescription"
  /\ calls' = [calls EXCEPT ![p] = Throw(calls[p])]
  /\ UNCHANGED <<isInitialized, sessionKeyCache, peerConnections, now, nextKeyId,
                 createdAt, lastCheck, callsMade>>
  /\ KeyStoreOnly

\* storeSessionKey resumes after await this.initialize(): the cache takes the key.
StoreResumes(p) ==
  /\ calls[p].pc = "initialized" /\ calls[p].phase = "store"
  /\ sessionKeyCache' = calls[p].key
  /\ createdAt' = now
  /\ lastCheck' = [lastCheck EXCEPT !.valid = FALSE]
  /\ calls' = [q \in Callers |->
       IF q = p
         THEN [calls[p] EXCEPT !.pc = IF calls[p].op = "store" THEN "done" ELSE "stored"]
         ELSE [calls[q] EXCEPT !.afterCheck = FALSE]]
  /\ UNCHANGED <<isInitialized, peerConnections, now, nextKeyId, callsMade>>
  /\ KeyStoreOnly

\* retrieveSessionKey resumes and returns the cache.  tripleLayerEncryptOptimized
\* rotates when it got no key (lines 385-387) and otherwise goes on with the key it
\* got.  In checkAndRotateSessionKey the caller goes on with the key it got: no key, it rotates (line 465); a key
\* whose leading characters do not parse, or parse to a time more than ttl ago, it
\* rotates inside the try block (line 477); otherwise it returns.
RetrieveResumes(p) ==
  /\ calls[p].pc = "initialized" /\ calls[p].phase = "retrieve"
  /\ LET c == IF calls[p].op = "check"
                THEN [calls[p] EXCEPT !.found = sessionKeyCache, !.decidedAt = now,
                                      !.age = now - createdAt]
                ELSE [calls[p] EXCEPT !.found = sessionKeyCache]
         returns == c.op = "check" /\ sessionKeyCache # NoKey
                      /\ ~Expired(sessionKeyCache, c.ttl, now)
     IN /\ calls' = [calls EXCEPT ![p] =
             IF c.op = "retrieve"
               THEN [c EXCEPT !.pc = "done"]
             ELSE IF sessionKeyCache = NoKey
               THEN [c EXCEPT !.pc = "generating", !.rotations = 1]
             ELSE IF c.op = "encrypt"
               THEN [c EXCEPT !.pc = "done"]
             ELSE IF Expired(sessionKeyCache, c.ttl, now)
               THEN [c EXCEPT !.pc = "generating", !.rotations = 1, !.inTry = TRUE]
             ELSE [c EXCEPT !.pc = "done"]]
        /\ lastCheck' = IF returns THEN [valid |-> TRUE, ttl |-> c.ttl] ELSE lastCheck
  /\ UNCHANGED <<isInitialized, sessionKeyCache, peerConnections, now, nextKeyId,
                 createdAt, callsMade>>
  /\ KeyStoreOnly

\* rotateSessionKey returns base64SessionKey to its caller.
RotateReturns(p) ==
  /\ calls[p].pc = "stored"
  /\ calls' = [calls EXCEPT ![p] = [calls[p] EXCEPT !.pc = "done", !.inTry = FALSE]]
  /\ lastCheck' = IF calls[p].op = "check"
                    THEN [valid |-> TRUE, ttl |-> calls[p].ttl] ELSE lastCheck
  /\ UNCHANGED <<isInitialized, sessionKeyCache, peerConnections, now, nextKeyId,
                 createdAt, callsMade>>
  /\ KeyStoreOnly

\* A minute passes.
Tick ==
  /\ now < (1 + MaxMinutes) * MsPerMinute
  /\ now' = now + MsPerMinute
  /\ UNCHANGED <<isInitialized, sessionKeyCache, peerConnections, nextKeyId,
                 createdAt, lastCheck, calls, callsMade>>
  /\ KeyStoreOnly

KeyNext ==
  \/ \E p \in Callers : StartStore(p)
  \/ \E p \in Callers : StartRetrieve(p)
  \/ \E p \in Callers : StartRotate(p)
  \/ \E p \in Callers : StartCheck(p)
  \/ \E p \in Callers : StartEncrypt(p)
  \/ \E p \in Callers : KeyGenerated(p)
  \/ \E p \in Callers : CreateOfferResolves(p)
  \/ \E p \in Callers : CreateOfferRejects(p)
  \/ \E p \in Callers : SetLocalDescriptionResolves(p)
  \/ \E p \in Callers : SetLocalDescriptionRejects(p)
  \/ \E p \in Callers : StoreResumes(p)
  \/ \E p \in Callers : RetrieveResumes(p)
  \/ \E p \in Callers : RotateReturns(p)
  \/ Tick

(***************************************************************************)
(* processChunksParallel                                                   *)
(***************************************************************************)
MaxChunks == 4
MaxChunkValue == 1
MaxConcurrency == 2

\* The processor argument: the value its promise resolves to for a chunk.
Processor(chunk) == chunk + 10

ParIdle ==
  /\ chunks = <<>> /\ concurrency = 1 /\ index = 0 /\ results = <<>>
  /\ batch = <<>> /\ procState = <<>> /\ parState = "init"
  /\ startLog = <<>> /\ doneLog = <<>> /\ batchNo = <<>>

\* The state in which processChunksParallel(chunks, processor, concurrency) is
\* called: any list of chunks, any concurrency of at least 1.
ParInit ==
  /\ chunks \in UNION { [1..n -> 0..MaxChunkValue] : n \in 0..MaxChunks }
  /\ concurrency \in 1..MaxConcurrency
  /\ index = 0 /\ results = <<>> /\ batch = <<>>
  /\ procState = [i \in 1..Len(chunks) |-> "idle"]
  /\ parState = "init"
  /\ startLog = <<>> /\ doneLog = <<>>
  /\ batchNo = [i \in 1..Len(chunks) |-> 0]

\* for (let i = 0; i < concurrency && index < chunks.length; i++)
\*   batch.push(processor(chunks[index++]))
\* index counts the chunks consumed: chunks[index] of the code is chunks[index + 1] here.
BatchSize == Min(concurrency, Len(chunks) - index)

StartBatch ==
  LET n == BatchSize
      started == [k \in 1..n |-> index + k]
      number == IF startLog = <<>> THEN 1 ELSE batchNo[startLog[Len(startLog)]] + 1
  IN /\ batch' = started
     /\ index' = index + n
     /\ procState' = [i \in 1..Len(chunks) |->
                        IF i > index /\ i <= index + n THEN "running" ELSE procState[i]]
     /\ batchNo' = [i \in 1..Len(chunks) |->
                      IF i > index /\ i <= index + n THEN number ELSE batchNo[i]]
     /\ startLog' = startLog \o started

\* await Promise.all(batch) resolves once every promise of the batch has resolved.
BatchFirstResolved(b) == \E k \in 1..Len(b) : procState[b[k]] = "resolved"
BatchAllResolved(b) == \A k \in 1..Len(b) : procState[b[k]] = "resolved"

\* The indices of b in the order their promises resolved.
InCompletionOrder(b) ==
  LET mine(i) == \E k \in 1..Len(b) : b[k] = i
  IN SelectSeq(doneLog, mine)

\* Promise.all's result: the resolved values in the order of the batch array.
BatchResultsAsCompleted(b) ==
  [k \in 1..Len(b) |-> Processor(chunks[InCompletionOrder(b)[k]])]
BatchResults(b) == [k \in 1..Len(b) |-> Processor(chunks[b[k]])]

\* processChunksParallel is called and runs the first processNextBatch up to its await.
ProcessChunksParallel ==
  /\ parState = "init"
  /\ StartBatch
  /\ parState' = "awaiting"
  /\ UNCHANGED <<chunks, concurrency, results, doneLog>>
  /\ ParallelOnly

ProcessorResolves(i) ==
  /\ procState[i] = "running"
  /\ procState' = [procState EXCEPT ![i] = "resolved"]
  /\ doneLog' = Append(doneLog, i)
  /\ UNCHANGED <<chunks, concurrency, index, results, batch, parState, startLog, batchNo>>
  /\ ParallelOnly

ProcessorRejects(i) ==
  /\ procState[i] = "running"
  /\ procState' = [procState EXCEPT ![i] = "rejected"]
  /\ UNCHANGED <<chunks, concurrency, index, results, batch, parState, startLog,
                 doneLog, batchNo>>
  /\ ParallelOnly

\* Promise.all resolved: results.push(...batchResults), then the next batch when
\* chunks remain, else processChunksParallel returns results.
BatchResolves ==
  /\ parState = "awaiting"
  /\ BatchAllResolved(batch)
  /\ results' = results \o BatchResults(batch)
  /\ IF index < Len(chunks)
       THEN StartBatch /\ parState' = parState
       ELSE parState' = "done" /\ UNCHANGED <<index, batch, procState, startLog, batchNo>>
  /\ UNCHANGED <<chunks, concurrency, doneLog>>
  /\ ParallelOnly

\* Promise.all rejects as soon as one promise of the batch rejects: the error leaves
\* processNextBatch and processChunksParallel rejects.
BatchRejects ==
  /\ parState = "awaiting"
  /\ \E k \in 1..Len(batch) : procState[batch[k]] = "rejected"
  /\ parState' = "failed"
  /\ UNCHANGED <<chunks, concurrency, index, results, batch, procState, startLog,
                 doneLog, batchNo>>
  /\ ParallelOnly

ParNext ==
  \/ ProcessChunksParallel
  \/ \E i \in 1..Len(chunks) : ProcessorResolves(i)
  \/ \E i \in 1..Len(chunks) : ProcessorRejects(i)
  \/ BatchResolves
  \/ BatchRejects

(***************************************************************************)
(* encryptAesGcmOptimized / decryptAesGcmOptimized                         *)
(*                                                                         *)
(* AES-GCM as WebCrypto runs it: the plaintext is combined byte by byte    *)
(* with a keystream that key, IV and position determine, and a 16-byte tag *)
(* authenticating key, IV and the whole ciphertext follows.  The tag is an *)
(* ideal one: two tags are equal only when key, IV and ciphertext are.     *)
(***************************************************************************)
MaxByte == 1
MaxMsgLen == 4
MaxEncChunk == 2
NumAesKeys == 2

\* crypto.ts 138: new Uint8Array(12); 228: slice(0, 12)
IvLen == 12
\* crypto.ts 149, 170: crypto.subtle.encrypt without tagLength appends 16 bytes
TagLen == 16

ByteMod == MaxByte + 1

\* crypto.getRandomValues(new Uint8Array(12))
RandomIvs == { [i \in 1..IvLen |-> v] : v \in 0..MaxByte }

KeyStream(key, iv, i) == (key + iv[1] + i) % ByteMod

GcmTag(key, iv, ciphertext) == [j \in 1..TagLen |-> <<"tag", j, key, iv, ciphertext>>]

\* crypto.subtle.encrypt({ name: 'AES-GCM', iv }, key, data)
GcmEncrypt(key, iv, data) ==
  LET ciphertext == [i \in 1..Len(data) |-> (data[i] + KeyStream(key, iv, i)) % ByteMod]
  IN ciphertext \o GcmTag(key, iv, ciphertext)

\* crypto.subtle.decrypt({ name: 'AES-GCM', iv }, key, data): throws unless the last
\* 16 bytes are the tag of what precedes them.
GcmDecrypt(key, iv, data) ==
  IF Len(data) < TagLen THEN [ok |-> FALSE, data |-> <<>>]
  ELSE LET ciphertext == SubSeq(data, 1, Len(data) - TagLen)
           tag == SubSeq(data, Len(data) - TagLen + 1, Len(data))
       IN IF tag # GcmTag(key, iv, ciphertext) THEN [ok |-> FALSE, data |-> <<>>]
          ELSE [ok |-> TRUE,
                data |-> [i \in 1..Len(ciphertext) |->
                            (ciphertext[i] + ByteMod - KeyStream(key, iv, i)) % ByteMod]]

\* crypto.ts 146-152: every sub-range of chunkSize bytes is encrypted on its own,
\* with the same iv, and the results are concatenated.
RECURSIVE EncryptSubRanges(_, _, _, _, _)
EncryptSubRanges(key, iv, data, size, offset) ==
  IF offset >= Len(data) THEN <<>>
  ELSE GcmEncrypt(key, iv, SubSeq(data, offset + 1, Min(offset + size, Len(data))))
         \o EncryptSubRanges(key, iv, data, size, offset + size)

EncryptAesGcmOptimized(key, iv, data, size) ==
  IF Len(data) > size
    THEN iv \o EncryptSubRanges(key, iv, data, size, 0)
    ELSE iv \o GcmEncrypt(key, iv, data)

\* crypto.ts 222-254: both branches decrypt everything after the IV in one call.
DecryptAesGcmOptimized(key, encryptedData, size) ==
  LET iv == SubSeq(encryptedData, 1, Min(IvLen, Len(encryptedData)))
      encryptedMessage == SubSeq(encryptedData, IvLen + 1, Len(encryptedData))
  IN GcmDecrypt(key, iv, encryptedMessage)

CipherIdle ==
  /\ aesKey = 0 /\ message = <<>> /\ encChunkSize = 1 /\ envelope = <<>>
  /\ decrypted = <<>> /\ cipherState = "init" /\ encryptCalls = <<>>

\* Any key, any plaintext, any sub-range size.
CipherInit ==
  /\ aesKey \in 1..NumAesKeys
  /\ message \in UNION { [1..n -> 0..MaxByte] : n \in 0..MaxMsgLen }
  /\ encChunkSize \in 1..MaxEncChunk
  /\ envelope = <<>> /\ decrypted = <<>> /\ cipherState = "init"
  /\ encryptCalls = <<>>

\* The crypto.subtle.encrypt calls of one encryptAesGcmOptimized: one per
\* sub-range when the message is longer than chunkSize, else one; each is
\* given the iv drawn at line 138.
SubtleEncryptCalls(key, iv, data, size) ==
  LET n == IF Len(data) > size THEN (Len(data) + size - 1) \div size ELSE 1
  IN  [k \in 1..n |-> [key |-> key, iv |-> iv]]

Encrypt ==
  /\ cipherState = "init"
  /\ \E iv \in RandomIvs :
       /\ envelope' = EncryptAesGcmOptimized(aesKey, iv, message, encChunkSize)
       /\ encryptCalls' =
            encryptCalls \o SubtleEncryptCalls(aesKey, iv, message, encChunkSize)
  /\ cipherState' = "encrypted"
  /\ UNCHANGED <<aesKey, message, encChunkSize, decrypted>>
  /\ CipherOnly

Decrypt ==
  /\ cipherState = "encrypted"
  /\ LET r == DecryptAesGcmOptimized(aesKey, envelope, encChunkSize)
     IN IF r.ok
          THEN decrypted' = r.data /\ cipherState' = "decrypted"
          ELSE decrypted' = <<>> /\ cipherState' = "decryptFailed"
  /\ UNCHANGED <<aesKey, message, encChunkSize, envelope, encryptCalls>>
  /\ CipherOnly

CipherNext ==
  \/ Encrypt
  \/ Decrypt

(***************************************************************************)
(* progressiveFileTransfer                                                 *)
(*                                                                         *)
(* The loop suspends at `await sender(chunk, isLastChunk)` and nowhere     *)
(* else.  The caller's cancellation signal is SendOptions.signal           *)
(* (uniqueCode.ts 157, configs.ts 36); progressiveFileTransfer takes no    *)
(* signal and reads none, so raising it changes the signal alone.          *)
(***************************************************************************)
MaxDataLen == 4
MaxTransferChunk == 2
\* A data length of more than 100 chunks, where a chunk advances the
\* progress by less than one percent.
ManyChunksLen == 201

DataLengths == (0..MaxDataLen) \cup {ManyChunksLen}

TransferIdle ==
  /\ dataByteLength = 0 /\ transferChunkSize = 1 /\ onProgress = FALSE
  /\ transferOffset = 0 /\ lastReportedProgress = 0
  /\ transferState = "init" /\ senderCalls = 0 /\ progressLog = <<>>
  /\ signalAborted = FALSE /\ abortedAt = 0

TransferInit ==
  /\ dataByteLength \in DataLengths
  /\ transferChunkSize \in 1..MaxTransferChunk
  /\ onProgress \in BOOLEAN
  /\ transferOffset = 0 /\ lastReportedProgress = 0
  /\ transferState = "init" /\ senderCalls = 0 /\ progressLog = <<>>
  /\ signalAborted = FALSE /\ abortedAt = 0

\* const end = Math.min(offset + chunkSize, fileSize)
TransferEnd(off) == Min(off + transferChunkSize, dataByteLength)

\* Math.floor((offset / fileSize) * 100) in IEEE doubles.  The quotient is
\* rounded before it is multiplied, so where offset * 100 / fileSize is a
\* whole number k below 100 the product may come out just under k and the
\* floor is k - 1 (29 / 100 * 100 is 28.999999999999996); elsewhere the
\* floor is the exact one, and offset = fileSize gives 1 * 100 = 100.
CurrentProgress(off) ==
  LET k == (off * 100) \div dataByteLength
  IN  IF (off * 100) % dataByteLength = 0 /\ off < dataByteLength
      THEN {k - 1, k}
      ELSE {k}

\* onProgress && (currentProgress >= lastReportedProgress + 1 || isLastChunk)
ReportsAlways(currentProgress, isLastChunk) == onProgress
Reports(currentProgress, isLastChunk) ==
  onProgress /\ (currentProgress >= lastReportedProgress + 1 \/ isLastChunk)

\* while (offset < fileSize) { ...; await sender(chunk, isLastChunk); ... }
\* entered with offset = off: the next sender call, or the return.
LoopHead(off) ==
  IF off < dataByteLength
  THEN /\ senderCalls' = senderCalls + 1
       /\ transferState' = "awaitSender"
  ELSE /\ senderCalls' = senderCalls
       /\ transferState' = "resolved"

ProgressiveFileTransfer ==
  /\ transferState = "init"
  /\ LoopHead(transferOffset)
  /\ UNCHANGED <<dataByteLength, transferChunkSize, onProgress, transferOffset,
                 lastReportedProgress, progressLog, signalAborted, abortedAt>>
  /\ TransferOnly

\* The sender's promise resolves: the rest of the loop body, then the loop
\* head again.
SenderResolves ==
  /\ transferState = "awaitSender"
  /\ LET end == TransferEnd(transferOffset)
         isLastChunk == end = dataByteLength
     IN  /\ transferOffset' = end
         /\ \E currentProgress \in CurrentProgress(end) :
              IF Reports(currentProgress, isLastChunk)
              THEN /\ progressLog' = Append(progressLog, currentProgress)
                   /\ lastReportedProgress' = currentProgress
              ELSE UNCHANGED <<progressLog, lastReportedProgress>>
         /\ LoopHead(end)
  /\ UNCHANGED <<dataByteLength, transferChunkSize, onProgress, signalAborted,
                 abortedAt>>
  /\ TransferOnly

\* The sender's promise rejects: the await throws out of the function.
SenderRejects ==
  /\ transferState = "awaitSender"
  /\ transferState' = "rejected"
  /\ UNCHANGED <<dataByteLength, transferChunkSize, onProgress, transferOffset,
                 lastReportedProgress, senderCalls, progressLog, signalAborted,
                 abortedAt>>
  /\ TransferOnly

\* The caller raises the cancellation signal while the transfer runs.
SignalAborts ==
  /\ transferState = "awaitSender"
  /\ ~signalAborted
  /\ signalAborted' = TRUE
  /\ abortedAt' = senderCalls
  /\ UNCHANGED <<dataByteLength, transferChunkSize, onProgress, transferOffset,
                 lastReportedProgress, transferState, senderCalls, progressLog>>
  /\ TransferOnly

TransferNext ==
  \/ ProgressiveFileTransfer
  \/ SenderResolves
  \/ SenderRejects
  \/ SignalAborts

(***************************************************************************)
(* validateFileMetadata                                                    *)
(*                                                                         *)
(* maxSize is optional: <<>> is a call without it, <<n>> one with n.        *)
(***************************************************************************)
MaxLimit == 7

ValidateIdle == metadataSize = 0 /\ maxSize = <<>> /\ validation = "none"

ValidateInit ==
  /\ metadataSize \in 0..(MaxLimit + 1)
  /\ maxSize \in {<<>>} \cup { <<n>> : n \in 0..MaxLimit }
  /\ validation = "none"

\* JavaScript's truthiness of a number or undefined: undefined and 0 are falsy.
Truthy(v) == v # <<>> /\ v[1] # 0

\* if (maxSize && metadata.size > maxSize) return new Error(...)
ValidateFileMetadata(size, limit) ==
  IF Truthy(limit) /\ size > limit[1] THEN "error" ELSE "undefined"

Validate ==
  /\ validation = "none"
  /\ validation' = ValidateFileMetadata(metadataSize, maxSize)
  /\ UNCHANGED <<metadataSize, maxSize>>
  /\ ValidateOnly

ValidateNext == Validate

(***************************************************************************)
(* concatUint8Arrays / splitUint8Array                                     *)
(*                                                                         *)
(* A Uint8Array is kept as the sequence of its runs of equal bytes, each   *)
(* [byte, count] with count > 0 and neighbouring runs of different bytes:  *)
(* two arrays are equal exactly when their runs are, and an array of 2^16  *)
(* bytes stays small.  The split index goes through a Uint16Array, which   *)
(* keeps the length modulo 2^16, and its two bytes are read back in the    *)
(* same (little-endian) order they were written.                           *)
(***************************************************************************)
MaxArrayLen == 2
MaxArrayByte == 1
MaxBufferLen == 3
MaxBufferByte == 2
\* new Uint16Array([array1.length]): the length modulo 2^16
Uint16Mod == 65536
\* new Uint8Array(splitIndex.buffer): bytes of 8 bits
Uint8Mod == 256

RECURSIVE ByteLength(_)
ByteLength(a) == IF a = <<>> THEN 0 ELSE a[1].count + ByteLength(Tail(a))

\* The bytes of a followed by the bytes of b.
Joined(a, b) ==
  IF a = <<>> THEN b
  ELSE IF b = <<>> THEN a
  ELSE IF a[Len(a)].byte = b[1].byte
  THEN SubSeq(a, 1, Len(a) - 1)
         \o <<[byte |-> b[1].byte, count |-> a[Len(a)].count + b[1].count]>>
         \o Tail(b)
  ELSE a \o b

\* The array of n bytes v.
Filled(v, n) == IF n = 0 THEN <<>> ELSE <<[byte |-> v, count |-> n]>>

RECURSIVE FromBytes(_)
FromBytes(bytes) ==
  IF bytes = <<>> THEN <<>>
  ELSE Joined(Filled(bytes[1], 1), FromBytes(Tail(bytes)))

\* The first n bytes of a, and a without them.
RECURSIVE FirstBytes(_, _)
FirstBytes(a, n) ==
  IF n <= 0 \/ a = <<>> THEN <<>>
  ELSE IF a[1].count <= n
  THEN <<a[1]>> \o FirstBytes(Tail(a), n - a[1].count)
  ELSE Filled(a[1].byte, n)

RECURSIVE WithoutFirstBytes(_, _)
WithoutFirstBytes(a, n) ==
  IF n <= 0 \/ a = <<>> THEN a
  ELSE IF a[1].count <= n
  THEN WithoutFirstBytes(Tail(a), n - a[1].count)
  ELSE <<[byte |-> a[1].byte, count |-> a[1].count - n]>> \o Tail(a)

\* a[i], for 0 <= i < a.length
ByteAt(a, i) == WithoutFirstBytes(a, i)[1].byte

RECURSIVE ByteSeqs(_, _)
ByteSeqs(maxLen, maxByte) ==
  IF maxLen = 0 THEN {<<>>}
  ELSE LET shorter == ByteSeqs(maxLen - 1, maxByte)
       IN  shorter \cup { Append(a, v) : a \in shorter, v \in 0..maxByte }

ByteArrays(maxLen, maxByte) == { FromBytes(bytes) : bytes \in ByteSeqs(maxLen, maxByte) }

\* Arrays too long for the two-byte split index.
LongArrays ==
  { Joined(Filled(v, Uint16Mod), tail) :
      v \in 0..MaxArrayByte, tail \in ByteArrays(1, MaxArrayByte) }

NoSplit == [threw |-> FALSE, array1 |-> <<>>, array2 |-> <<>>]

PackIdle ==
  /\ array1 = <<>> /\ array2 = <<>> /\ combinedArray = <<>>
  /\ splitResult = NoSplit /\ packState = "idle"

PackInit ==
  /\ splitResult = NoSplit
  /\ \/ /\ packState = "pair"
        /\ array1 \in ByteArrays(MaxArrayLen, MaxArrayByte) \cup LongArrays
        /\ array2 \in ByteArrays(MaxArrayLen, MaxArrayByte)
        /\ combinedArray = <<>>
     \/ /\ packState = "buffer"
        /\ array1 = <<>> /\ array2 = <<>>
        /\ combinedArray \in ByteArrays(MaxBufferLen, MaxBufferByte)

\* new Uint8Array(new Uint16Array([n]).buffer)
Uint16Bytes(n) ==
  LET u == n % Uint16Mod IN FromBytes(<<u % Uint8Mod, u \div Uint8Mod>>)

ConcatUint8Arrays(a1, a2) == Joined(Joined(Uint16Bytes(ByteLength(a1)), a1), a2)

\* TypedArray.prototype.subarray(begin, end): both ends clamped to the array
ClampIndex(i, len) == IF i < 0 THEN 0 ELSE Min(i, len)
Subarray(a, begin, end) ==
  LET from == ClampIndex(begin, ByteLength(a))
      to == ClampIndex(end, ByteLength(a))
  IN  FirstBytes(WithoutFirstBytes(a, from), to - from)

\* const splitIndex = new Uint16Array(combinedArray.slice(0, 2).buffer)[0]
\* With one byte the Uint16Array constructor throws a RangeError; with none
\* splitIndex is undefined, 2 + undefined is NaN, and subarray reads NaN as 0.
SplitIndex(c) == ByteAt(c, 0) + Uint8Mod * ByteAt(c, 1)

SplitUint8Array(c) ==
  IF ByteLength(c) = 1 THEN [threw |-> TRUE, array1 |-> <<>>, array2 |-> <<>>]
  ELSE IF ByteLength(c) = 0
  THEN [threw |-> FALSE,
        array1 |-> Subarray(c, 2, 0),
        array2 |-> Subarray(c, 0, ByteLength(c))]
  ELSE [threw |-> FALSE,
        array1 |-> Subarray(c, 2, 2 + SplitIndex(c)),
        array2 |-> Subarray(c, 2 + SplitIndex(c), ByteLength(c))]

Concat ==
  /\ packState = "pair"
  /\ combinedArray' = ConcatUint8Arrays(array1, array2)
  /\ packState' = "combined"
  /\ UNCHANGED <<array1, array2, splitResult>>
  /\ PackOnly

Split ==
  /\ packState \in {"combined", "buffer"}
  /\ splitResult' = SplitUint8Array(combinedArray)
  /\ packState' = IF packState = "combined" THEN "roundTrip" ELSE "split"
  /\ UNCHANGED <<array1, array2, combinedArray>>
  /\ PackOnly

PackNext ==
  \/ Concat
  \/ Split

(***************************************************************************)
(* createOptimizedChunks                                                   *)
(*                                                                         *)
(* The chunks are subarray views of data: a view is the byte range         *)
(* [begin, end) of data it shows, and data is given by its byteLength.     *)
(***************************************************************************)
MaxChunkMultiple == 2
MaxOffBy == 1

Max(a, b) == IF a >= b THEN a ELSE b

\* Math.max(chunkSize, 16 * 1024 * 1024): "Minimum 16MB chunks"
MinChunk == 16 * 1024 * 1024
OptimalChunkSizeSum(size) == size + MinChunk
OptimalChunkSize(size) == Max(size, MinChunk)

\* Byte counts around the multiples of the minimum chunk.
NearMultiples ==
  { k * MinChunk + d : k \in 0..MaxChunkMultiple, d \in (0 - MaxOffBy)..MaxOffBy }
    \cap Nat

ViewIdle ==
  /\ viewedByteLength = 0 /\ viewChunkSize = 0 /\ views = <<>> /\ viewState = "idle"

ViewInit ==
  /\ viewedByteLength \in NearMultiples
  /\ viewChunkSize \in NearMultiples
  /\ views = <<>>
  /\ viewState = "init"

\* data.subarray(begin, end) of a data of len bytes
SubarrayView(len, begin, end) ==
  [begin |-> ClampIndex(begin, len),
   end |-> Max(ClampIndex(begin, len), ClampIndex(end, len))]

\* while (offset < data.byteLength)
MoreWholeChunks(len, size, off) == off + OptimalChunkSize(size) <= len
MoreChunks(len, size, off) == off < len

RECURSIVE ChunkLoop(_, _, _)
ChunkLoop(len, size, off) ==
  IF MoreChunks(len, size, off)
  THEN <<SubarrayView(len, off, off + OptimalChunkSize(size))>>
         \o ChunkLoop(len, size, off + OptimalChunkSize(size))
  ELSE <<>>

CreateOptimizedChunks(len, size) == ChunkLoop(len, size, 0)

CreateChunks ==
  /\ viewState = "init"
  /\ views' = CreateOptimizedChunks(viewedByteLength, viewChunkSize)
  /\ viewState' = "returned"
  /\ UNCHANGED <<viewedByteLength, viewChunkSize>>
  /\ ViewOnly

ViewNext == CreateChunks

(***************************************************************************)
(* calculateOptimalChunkSize                                               *)
(*                                                                         *)
(* A file size runs past 10 GiB, so it is kept as whole MiB (mib) and the  *)
(* bytes beyond them (rem < 2^20): fileSize = mib * 2^20 + rem.            *)
(***************************************************************************)
MaxNear == 1

MiB == 1024 * 1024

\* The thresholds of the three comparisons, in MiB.
TierThresholds == {100, 1024, 10 * 1024}

FileSizes ==
  { [mib |-> m, rem |-> r] :
      m \in { t + d : t \in TierThresholds \cup {0}, d \in (0 - MaxNear)..MaxNear } \cap Nat,
      r \in (0..MaxNear) \cup {MiB - 1} }

\* fileSize > m * 1024 * 1024
ExceedsOrEquals(s, m) == s.mib >= m
Exceeds(s, m) == s.mib > m \/ (s.mib = m /\ s.rem > 0)

CalculateOptimalChunkSize(s) ==
  IF Exceeds(s, 10 * 1024) THEN 134217728
  ELSE IF Exceeds(s, 1024) THEN 67108864
  ELSE IF Exceeds(s, 100) THEN 16777216
  ELSE 4194304

TierIdle ==
  /\ tierSizes = <<>> /\ tierResults = <<>> /\ tierState = "idle"

TierInit ==
  /\ tierSizes \in FileSizes \X FileSizes
  /\ tierResults = <<>>
  /\ tierState = "init"

CalculateBoth ==
  /\ tierState = "init"
  /\ tierResults' = <<CalculateOptimalChunkSize(tierSizes[1]),
                      CalculateOptimalChunkSize(tierSizes[2])>>
  /\ tierState' = "returned"
  /\ UNCHANGED tierSizes
  /\ TierOnly

TierNext == CalculateBoth

(***************************************************************************)
(* measureNetworkAndOptimizeChunkSize                                      *)
(*                                                                         *)
(* The function suspends once, at the promise that testChannel.onopen or   *)
(* the 3000 ms timer settles, whichever runs first; the other one's        *)
(* resolve is then a no-op.  Times are in ms.                              *)
(***************************************************************************)
MaxJitter == 1

\* setTimeout(() => resolve(), 3000)
ProbeTimeout == 3000
\* if (throughput > 50)
HighSpeed == 50
\* else if (throughput < 5)
LowSpeed == 5

\* Times after startTime at which the channel may open, and at which the
\* timer (never early, possibly late) may fire.
OpenDelays ==
  { t + d : t \in {0, 20, 200, ProbeTimeout}, d \in (0 - MaxJitter)..MaxJitter }
    \cap (0..ProbeTimeout)
TimerDelays == { ProbeTimeout + d : d \in 0..MaxJitter }

ProbeIdle ==
  /\ probeFileSize = [mib |-> 0, rem |-> 0] /\ optimizedChunkSize = 0
  /\ duration = -1 /\ probeState = "idle" /\ probeOutcome = "none"

ProbeInit ==
  /\ probeFileSize \in FileSizes
  /\ optimizedChunkSize = 0
  /\ duration = -1 /\ probeState = "init" /\ probeOutcome = "none"

\* const throughput = 1 / (duration / 1000), in MB/s, compared with a
\* threshold: 1000 / duration > mbps, and a duration of 0 gives Infinity.
ThroughputAbove(d, mbps) == d * mbps < 1000
ThroughputBelow(d, mbps) == d * mbps > 1000

\* The adjustment of lines 267-273.
AdjustUncapped(size, d) ==
  IF ThroughputAbove(d, HighSpeed) THEN size * 2
  ELSE IF ThroughputBelow(d, LowSpeed) THEN Max(1 * 1024 * 1024, size \div 2)
  ELSE size
Adjust(size, d) ==
  IF ThroughputAbove(d, HighSpeed) THEN Min(128 * 1024 * 1024, size * 2)
  ELSE IF ThroughputBelow(d, LowSpeed) THEN Max(1 * 1024 * 1024, size \div 2)
  ELSE size

\* The call up to the await; createDataChannel may throw, and the catch
\* block then leaves the calculated size.
MeasureNetworkAndOptimizeChunkSize ==
  /\ probeState = "init"
  /\ optimizedChunkSize' = CalculateOptimalChunkSize(probeFileSize)
  /\ \E createThrows \in BOOLEAN :
       IF createThrows
       THEN probeState' = "returned" /\ probeOutcome' = "createThrew"
       ELSE probeState' = "awaitProbe" /\ probeOutcome' = "none"
  /\ UNCHANGED <<probeFileSize, duration>>
  /\ ProbeOnly

\* testChannel.onopen runs d ms after startTime and testChannel.send is
\* accepted: resolve(), and the function runs on to its return.
ProbeSent ==
  /\ probeState = "awaitProbe"
  /\ \E d \in OpenDelays :
       /\ duration' = d
       /\ optimizedChunkSize' = Adjust(optimizedChunkSize, d)
  /\ probeState' = "returned"
  /\ probeOutcome' = "sent"
  /\ UNCHANGED probeFileSize
  /\ ProbeOnly

\* testChannel.onopen runs and testChannel.send throws: reject(err), the
\* await throws into the catch block.
ProbeSendThrows ==
  /\ probeState = "awaitProbe"
  /\ probeState' = "returned"
  /\ probeOutcome' = "sendThrew"
  /\ UNCHANGED <<probeFileSize, optimizedChunkSize, duration>>
  /\ ProbeOnly

\* The channel has not opened when the timer fires: resolve().
ProbeTimesOut ==
  /\ probeState = "awaitProbe"
  /\ \E d \in TimerDelays :
       /\ duration' = d
       /\ optimizedChunkSize' = Adjust(optimizedChunkSize, d)
  /\ probeState' = "returned"
  /\ probeOutcome' = "timedOut"
  /\ UNCHANGED probeFileSize
  /\ ProbeOnly

ProbeNext ==
  \/ MeasureNetworkAndOptimizeChunkSize
  \/ ProbeSent
  \/ ProbeSendThrows
  \/ ProbeTimesOut

(***************************************************************************)
(* createReliableDataChannel (configs.ts 204-248)                          *)
(*                                                                         *)
(* One call.  The code between two awaits runs as one step: from the while *)
(* test through createDataChannel to the await of the open promise, and    *)
(* from a rejection through the catch block to the throw or to the await   *)
(* of the backoff timer.  Every channel the call created keeps its         *)
(* handlers and may still open or fail after its attempt was given up.     *)
(* Time is followed in steps of BackoffBase ms, no step passing a timer    *)
(* that is due.                                                            *)
(***************************************************************************)
MaxRetriesArg == 3

\* configs.ts 220-222: setTimeout(() => reject(...), 5000)
OpenTimeout == 5000
\* configs.ts 243: 1000 * Math.pow(2, retries)
BackoffBase == 1000

RECURSIVE Pow2(_)
Pow2(n) == IF n = 0 THEN 1 ELSE 2 * Pow2(n - 1)

BackoffDelayFromBase(r) == BackoffBase * Pow2(r - 1)
BackoffDelay(r) == BackoffBase * Pow2(r)

NoError == [attempt |-> 0, kind |-> "none"]
\* configs.ts 247: new Error('Failed to create data channel after max retries')
MaxRetriesError == [attempt |-> 0, kind |-> "Failed to create data channel after max retries"]

ChannelIdle ==
  /\ maxRetries = 0 /\ retries = 0 /\ dataChannels = <<>> /\ channelState = "init"
  /\ channelClock = 0 /\ timeout = -1 /\ returnedChannel = 0 /\ thrownError = NoError
  /\ settledAt = -1 /\ attemptLog = <<>> /\ failureLog = <<>> /\ backoffLog = <<>>

ChannelInit ==
  /\ maxRetries \in 0..MaxRetriesArg
  /\ retries = 0 /\ dataChannels = <<>> /\ channelState = "init"
  /\ channelClock = 0 /\ timeout = -1 /\ returnedChannel = 0 /\ thrownError = NoError
  /\ settledAt = -1 /\ attemptLog = <<>> /\ failureLog = <<>> /\ backoffLog = <<>>

\* configs.ts 238: if (retries >= maxRetries) throw error
GivesUpLate(r, n) == r > n
GivesUp(r, n) == r >= n

\* The catch block (lines 236-244) with the error err of the attempt under way.
Catch(err) ==
  /\ retries' = retries + 1
  /\ failureLog' = Append(failureLog, [error |-> err, at |-> channelClock])
  /\ IF GivesUp(retries + 1, maxRetries)
       THEN /\ channelState' = "thrown"
            /\ thrownError' = err
            /\ settledAt' = channelClock
            /\ timeout' = -1
            /\ backoffLog' = backoffLog
       ELSE /\ channelState' = "backoff"
            /\ timeout' = channelClock + BackoffDelay(retries + 1)
            /\ backoffLog' = Append(backoffLog, [delay |-> BackoffDelay(retries + 1),
                                                 from |-> channelClock])
            /\ UNCHANGED <<thrownError, settledAt>>

\* From the while test (line 211) to the next await or to the end of the call:
\* createDataChannel returns a channel, whose open is awaited under a timer, or
\* throws into the catch block; past the loop the call throws (line 247).
NextAttempt ==
  IF retries < maxRetries
    THEN /\ attemptLog' = Append(attemptLog, channelClock)
         /\ \E throws \in BOOLEAN :
              IF throws
                THEN /\ dataChannels' = Append(dataChannels, "none")
                     /\ Catch([attempt |-> Len(attemptLog) + 1,
                               kind |-> "createDataChannel"])
                ELSE /\ dataChannels' = Append(dataChannels, "connecting")
                     /\ channelState' = "awaitOpen"
                     /\ timeout' = channelClock + OpenTimeout
                     /\ UNCHANGED <<retries, thrownError, settledAt, failureLog,
                                    backoffLog>>
    ELSE /\ channelState' = "thrown"
         /\ thrownError' = MaxRetriesError
         /\ settledAt' = channelClock
         /\ timeout' = -1
         /\ UNCHANGED <<retries, dataChannels, attemptLog, failureLog, backoffLog>>

CreateReliableDataChannel ==
  /\ channelState = "init"
  /\ NextAttempt
  /\ UNCHANGED <<maxRetries, channelClock, returnedChannel>>
  /\ ChannelOnly

\* The channel of attempt i opens: its onopen handler clears the attempt's timer
\* and resolves the attempt's promise, which the call still awaits only if i is
\* the attempt under way; then the call returns that channel (line 235).
ChannelOpens(i) ==
  /\ i \in 1..Len(dataChannels)
  /\ dataChannels[i] = "connecting"
  /\ dataChannels' = [dataChannels EXCEPT ![i] = "open"]
  /\ IF channelState = "awaitOpen" /\ i = Len(dataChannels)
       THEN /\ channelState' = "returned"
            /\ returnedChannel' = i
            /\ settledAt' = channelClock
            /\ timeout' = -1
       ELSE UNCHANGED <<channelState, returnedChannel, settledAt, timeout>>
  /\ UNCHANGED <<maxRetries, retries, channelClock, thrownError, attemptLog,
                 failureLog, backoffLog>>
  /\ ChannelOnly

\* The channel of attempt i reports an error and closes: its onerror handler
\* clears the attempt's timer and rejects the attempt's promise.
ChannelErrors(i) ==
  /\ i \in 1..Len(dataChannels)
  /\ dataChannels[i] \in {"connecting", "open"}
  /\ IF channelState = "awaitOpen" /\ i = Len(dataChannels)
       THEN /\ Catch([attempt |-> i, kind |-> "error"])
            /\ dataChannels' = [dataChannels EXCEPT ![i] = "closed"]
       ELSE /\ dataChannels' = [dataChannels EXCEPT ![i] = "closed"]
            /\ UNCHANGED <<retries, channelState, timeout, thrownError, settledAt,
                           failureLog, backoffLog>>
  /\ UNCHANGED <<maxRetries, channelClock, returnedChannel, attemptLog>>
  /\ ChannelOnly

\* The 5 s timer of the attempt under way fires: 'Data channel open timeout'.
OpenTimesOut ==
  /\ channelState = "awaitOpen"
  /\ channelClock = timeout
  /\ Catch([attempt |-> Len(dataChannels), kind |-> "Data channel open timeout"])
  /\ UNCHANGED <<maxRetries, dataChannels, channelClock, returnedChannel, attemptLog>>
  /\ ChannelOnly

\* The backoff timer fires and the loop goes round.
BackoffElapses ==
  /\ channelState = "backoff"
  /\ channelClock = timeout
  /\ NextAttempt
  /\ UNCHANGED <<maxRetries, channelClock, returnedChannel>>
  /\ ChannelOnly

TimePasses ==
  /\ channelState \in {"awaitOpen", "backoff"}
  /\ channelClock < timeout
  /\ channelClock' = Min(channelClock + BackoffBase, timeout)
  /\ UNCHANGED <<maxRetries, retries, dataChannels, channelState, timeout,
                 returnedChannel, thrownError, settledAt, attemptLog, failureLog,
                 backoffLog>>
  /\ ChannelOnly

ChannelNext ==
  \/ CreateReliableDataChannel
  \/ \E i \in 1..MaxRetriesArg : ChannelOpens(i)
  \/ \E i \in 1..MaxRetriesArg : ChannelErrors(i)
  \/ OpenTimesOut
  \/ BackoffElapses
  \/ TimePasses

(***************************************************************************)
(* parseUniqueCode and base64url (uniqueCode.ts 40-65, base64.ts 7-32)     *)
(*                                                                         *)
(* A string is the sequence of its character codes.  btoa and atob are     *)
(* the platform's: atob is the forgiving base64 decoding, which fails on a *)
(* character outside the alphabet and on a length of 1 modulo 4.           *)
(* JSON.parse is the JSON grammar, read by recursive descent.  A parsed    *)
(* value is a record: its type t, a boolean b, the characters s of a       *)
(* string or of a number's text, and the items of an array (keys empty) or *)
(* the members of an object, in the order of the text.                     *)
(***************************************************************************)
MaxCodeLen == 3

\* The characters short codes are made of: e 3 0 * -
CodeAlphabet == {101, 51, 48, 42, 45}

At(s, i) == IF i >= 1 /\ i <= Len(s) THEN s[i] ELSE -1

\* ---- base64
Sextet(c) ==
  IF c \in 65..90 THEN c - 65
  ELSE IF c \in 97..122 THEN c - 71
  ELSE IF c \in 48..57 THEN c + 4
  ELSE IF c = 43 THEN 62
  ELSE IF c = 47 THEN 63
  ELSE -1

Base64Char(v) ==
  IF v < 26 THEN v + 65
  ELSE IF v < 52 THEN v + 71
  ELSE IF v < 62 THEN v - 4
  ELSE IF v = 62 THEN 43
  ELSE 47

\* btoa(str): fails on a character above 0xFF; three bytes make four characters,
\* the last group is padded with '='.
Btoa(str) ==
  LET n == Len(str)
      byte(j) == IF j <= n THEN str[j] ELSE 0
      char(k) ==
        LET q == (k - 1) \div 4
            r == (k - 1) % 4
            b1 == byte(3 * q + 1)
            b2 == byte(3 * q + 2)
            b3 == byte(3 * q + 3)
        IN IF r = 0 THEN Base64Char(b1 \div 4)
           ELSE IF r = 1 THEN Base64Char((b1 % 4) * 16 + b2 \div 16)
           ELSE IF r = 2
             THEN IF 3 * q + 2 > n THEN 61
                  ELSE Base64Char((b2 % 16) * 4 + b3 \div 64)
           ELSE IF 3 * q + 3 > n THEN 61 ELSE Base64Char(b3 % 64)
  IN IF \E j \in 1..n : str[j] > 255
       THEN [ok |-> FALSE, text |-> <<>>]
       ELSE [ok |-> TRUE, text |-> [k \in 1..(4 * ((n + 2) \div 3)) |-> char(k)]]

\* atob(data): ASCII whitespace is dropped, one or two trailing '=' of a string of
\* a multiple of four characters are dropped, and what is left is decoded six bits
\* a character, leftover bits discarded.
Atob(data) ==
  LET stripped == SelectSeq(data, LAMBDA c : c \notin {9, 10, 12, 13, 32})
      len == Len(stripped)
      unpadded ==
        IF len > 0 /\ len % 4 = 0
          THEN IF stripped[len] = 61 /\ stripped[len - 1] = 61
                 THEN SubSeq(stripped, 1, len - 2)
               ELSE IF stripped[len] = 61 THEN SubSeq(stripped, 1, len - 1)
               ELSE stripped
          ELSE stripped
      n == Len(unpadded)
      sx(k) == Sextet(unpadded[k])
      byte(j) ==
        LET q == (j - 1) \div 3
            r == (j - 1) % 3
        IN IF r = 0 THEN sx(4 * q + 1) * 4 + sx(4 * q + 2) \div 16
           ELSE IF r = 1 THEN (sx(4 * q + 2) % 16) * 16 + sx(4 * q + 3) \div 4
           ELSE (sx(4 * q + 3) % 4) * 64 + sx(4 * q + 4)
  IN IF n % 4 = 1 \/ \E k \in 1..n : sx(k) = -1
       THEN [ok |-> FALSE, text |-> <<>>]
       ELSE [ok |-> TRUE,
             text |-> [j \in 1..(3 * (n \div 4) + (IF n % 4 = 0 THEN 0 ELSE (n % 4) - 1))
                        |-> byte(j)]]

\* base64.ts 11-16: btoa, '+' to '-', '/' to '_', trailing '=' removed.
RECURSIVE WithoutTrailingPad(_)
WithoutTrailingPad(b) ==
  IF Len(b) > 0 /\ b[Len(b)] = 61 THEN WithoutTrailingPad(SubSeq(b, 1, Len(b) - 1)) ELSE b

Base64UrlEncode(str) ==
  LET base64 == Btoa(str)
  IN [ok |-> base64.ok,
      text |-> WithoutTrailingPad(
                 [k \in 1..Len(base64.text) |->
                    IF base64.text[k] = 43 THEN 45
                    ELSE IF base64.text[k] = 47 THEN 95
                    ELSE base64.text[k]])]

\* base64.ts 21-31: '-' to '+', '_' to '/', '=' appended up to a multiple of four,
\* atob.
Base64UrlDecode(str) ==
  LET base64 == [k \in 1..Len(str) |->
                   IF str[k] = 45 THEN 43 ELSE IF str[k] = 95 THEN 47 ELSE str[k]]
      padded == base64 \o [k \in 1..((4 - (Len(base64) % 4)) % 4) |-> 61]
  IN Atob(padded)

\* ---- values
JsValue(t, b, s, items) == [t |-> t, b |-> b, s |-> s, items |-> items]
Undefined == JsValue("undefined", FALSE, <<>>, <<>>)
Null == JsValue("null", FALSE, <<>>, <<>>)
Bool(b) == JsValue("boolean", b, <<>>, <<>>)
Num(text) == JsValue("number", FALSE, text, <<>>)
Str(s) == JsValue("string", FALSE, s, <<>>)
Arr(items) == JsValue("array", FALSE, <<>>, items)
Obj(members) == JsValue("object", FALSE, <<>>, members)

\* ---- JSON.parse
Fail == [ok |-> FALSE, val |-> Undefined, next |-> 0]
Parsed(val, next) == [ok |-> TRUE, val |-> val, next |-> next]

IsDigitCode(c) == c \in 48..57

RECURSIVE SkipWs(_, _)
SkipWs(s, i) == IF At(s, i) \in {32, 9, 10, 13} THEN SkipWs(s, i + 1) ELSE i

RECURSIVE SkipDigits(_, _)
SkipDigits(s, i) == IF IsDigitCode(At(s, i)) THEN SkipDigits(s, i + 1) ELSE i

StartsWith(s, i, lit) ==
  /\ i + Len(lit) - 1 <= Len(s)
  /\ \A k \in 1..Len(lit) : s[i + k - 1] = lit[k]

\* number: -? (0 | [1-9][0-9]*) (. [0-9]+)? ([eE] [+-]? [0-9]+)?
ScanNumber(s, i) ==
  LET a == IF At(s, i) = 45 THEN i + 1 ELSE i
      b == IF At(s, a) = 48 THEN a + 1 ELSE SkipDigits(s, a)
      hasFrac == At(s, b) = 46
      c == IF hasFrac THEN SkipDigits(s, b + 1) ELSE b
      hasExp == At(s, c) \in {101, 69}
      d == IF ~hasExp THEN c ELSE IF At(s, c + 1) \in {43, 45} THEN c + 2 ELSE c + 1
      e == IF hasExp THEN SkipDigits(s, d) ELSE c
  IN IF /\ b > a
        /\ hasFrac => c > b + 1
        /\ hasExp => e > d
       THEN Parsed(Num(SubSeq(s, i, e - 1)), e)
       ELSE Fail

HexDigit(c) ==
  IF c \in 48..57 THEN c - 48
  ELSE IF c \in 65..70 THEN c - 55
  ELSE IF c \in 97..102 THEN c - 87
  ELSE -1

\* The character a backslash and c stand for (-1: no escape), \u apart.
Escape(c) ==
  IF c \in {34, 92, 47} THEN c
  ELSE IF c = 98 THEN 8
  ELSE IF c = 102 THEN 12
  ELSE IF c = 110 THEN 10
  ELSE IF c = 114 THEN 13
  ELSE IF c = 116 THEN 9
  ELSE -1

\* The rest of a string whose opening quote has been read, acc being the
\* characters read so far.
RECURSIVE ScanString(_, _, _)
ScanString(s, i, acc) ==
  LET c == At(s, i)
  IN IF c < 32 THEN Fail
     ELSE IF c = 34 THEN Parsed(Str(acc), i + 1)
     ELSE IF c # 92 THEN ScanString(s, i + 1, Append(acc, c))
     ELSE IF At(s, i + 1) = 117
       THEN IF \A k \in 2..5 : HexDigit(At(s, i + k)) >= 0
              THEN ScanString(s, i + 6,
                     Append(acc, 4096 * HexDigit(s[i + 2]) + 256 * HexDigit(s[i + 3])
                                   + 16 * HexDigit(s[i + 4]) + HexDigit(s[i + 5])))
              ELSE Fail
     ELSE IF Escape(At(s, i + 1)) >= 0
       THEN ScanString(s, i + 2, Append(acc, Escape(At(s, i + 1))))
     ELSE Fail

RECURSIVE ParseValue(_, _)
RECURSIVE ParseElements(_, _, _)
RECURSIVE ParseMembers(_, _, _)

ParseValue(s, from) ==
  LET i == SkipWs(s, from)
      c == At(s, i)
  IN IF c = 123
       THEN IF At(s, SkipWs(s, i + 1)) = 125
              THEN Parsed(Obj(<<>>), SkipWs(s, i + 1) + 1)
              ELSE ParseMembers(s, i + 1, <<>>)
     ELSE IF c = 91
       THEN IF At(s, SkipWs(s, i + 1)) = 93
              THEN Parsed(Arr(<<>>), SkipWs(s, i + 1) + 1)
              ELSE ParseElements(s, i + 1, <<>>)
     ELSE IF c = 34 THEN ScanString(s, i + 1, <<>>)
     ELSE IF c = 45 \/ IsDigitCode(c) THEN ScanNumber(s, i)
     ELSE IF StartsWith(s, i, <<116, 114, 117, 101>>) THEN Parsed(Bool(TRUE), i + 4)
     ELSE IF StartsWith(s, i, <<102, 97, 108, 115, 101>>) THEN Parsed(Bool(FALSE), i + 5)
     ELSE IF StartsWith(s, i, <<110, 117, 108, 108>>) THEN Parsed(Null, i + 4)
     ELSE Fail

\* The elements of an array from position i on, acc being those read so far.
ParseElements(s, i, acc) ==
  LET v == ParseValue(s, i)
      j == SkipWs(s, v.next)
      items == Append(acc, [key |-> <<>>, val |-> v.val])
  IN IF ~v.ok THEN Fail
     ELSE IF At(s, j) = 44 THEN ParseElements(s, j + 1, items)
     ELSE IF At(s, j) = 93 THEN Parsed(Arr(items), j + 1)
     ELSE Fail

\* The members of an object from position i on.
ParseMembers(s, i, acc) ==
  LET k == SkipWs(s, i)
      key == ScanString(s, k + 1, <<>>)
      colon == SkipWs(s, key.next)
      v == ParseValue(s, colon + 1)
      j == SkipWs(s, v.next)
      members == Append(acc, [key |-> key.val.s, val |-> v.val])
  IN IF At(s, k) # 34 \/ ~key.ok THEN Fail
     ELSE IF At(s, colon) # 58 \/ ~v.ok THEN Fail
     ELSE IF At(s, j) = 44 THEN ParseMembers(s, j + 1, members)
     ELSE IF At(s, j) = 125 THEN Parsed(Obj(members), j + 1)
     ELSE Fail

\* JSON.parse(text): one value, whitespace around it, nothing else; ok is FALSE
\* where JSON.parse throws SyntaxError.
JsonParse(text) ==
  LET v == ParseValue(text, 1)
  IN IF v.ok /\ SkipWs(text, v.next) = Len(text) + 1
       THEN [ok |-> TRUE, val |-> v.val]
       ELSE [ok |-> FALSE, val |-> Undefined]

\* ---- the expressions of parseUniqueCode
\* data.key, data being neither null nor undefined: the last member of that name
\* of an object; of the names read here, nothing else has a property.
RECURSIVE Member(_, _, _)
Member(members, key, k) ==
  IF k = 0 THEN Undefined
  ELSE IF members[k].key = key THEN members[k].val
  ELSE Member(members, key, k - 1)

Get(data, key) ==
  IF data.t = "object" THEN Member(data.items, key, Len(data.items)) ELSE Undefined

\* The number a JSON number text or a string of digits stands for.  Exact for an
\* optional sign followed by digits only, which is all that a code generated by
\* generateUniqueCode, or built in this model, puts in a property read as a number.
DigitsOnly(s) ==
  LET first == IF At(s, 1) \in {43, 45} THEN 2 ELSE 1
  IN first <= Len(s) /\ \A k \in first..Len(s) : IsDigitCode(s[k])

\* parseInt(v): String(v) without its leading whitespace, read by ParseInt, which
\* tells signs and digits from everything else.
ToChars(text) ==
  LET s == SubSeq(text, SkipWs(text, 1), Len(text))
  IN
  [k \in 1..Len(s) |->
     IF IsDigitCode(s[k]) THEN DigitChars[s[k] - 47]
     ELSE IF s[k] = 43 THEN "+"
     ELSE IF s[k] = 45 THEN "-"
     ELSE "?"]

\* String(v): a string is itself, a number its text (exact for integers as JSON
\* writes them), an array its elements joined by commas, null elements empty.
RECURSIVE ToText(_)
RECURSIVE Join(_, _)
ToText(v) ==
  IF v.t \in {"string", "number"} THEN v.s
  ELSE IF v.t = "boolean"
    THEN IF v.b THEN <<116, 114, 117, 101>> ELSE <<102, 97, 108, 115, 101>>
  ELSE IF v.t = "array" THEN Join(v.items, 1)
  ELSE IF v.t = "object"
    THEN <<91, 111, 98, 106, 101, 99, 116, 32, 79, 98, 106, 101, 99, 116, 93>>
  ELSE IF v.t = "null" THEN <<110, 117, 108, 108>>
  ELSE <<117, 110, 100, 101, 102, 105, 110, 101, 100>>

Join(items, k) ==
  IF k > Len(items) THEN <<>>
  ELSE (IF items[k].val.t = "null" THEN <<>> ELSE ToText(items[k].val))
         \o (IF k < Len(items) THEN <<44>> ELSE <<>>)
         \o Join(items, k + 1)

\* Number(v), as the comparison of line 52 takes it: [isNaN, value].
ToNumber(v) ==
  IF v.t = "undefined" THEN [isNaN |-> TRUE, value |-> 0]
  ELSE IF v.t = "null" THEN [isNaN |-> FALSE, value |-> 0]
  ELSE IF v.t = "boolean" THEN [isNaN |-> FALSE, value |-> IF v.b THEN 1 ELSE 0]
  ELSE IF ToText(v) = <<>> THEN [isNaN |-> FALSE, value |-> 0]
  ELSE IF DigitsOnly(ToText(v)) THEN ParseInt(ToChars(ToText(v)))
  ELSE [isNaN |-> TRUE, value |-> 0]

\* v as a condition.
IsTruthy(v) ==
  IF v.t \in {"undefined", "null"} THEN FALSE
  ELSE IF v.t = "boolean" THEN v.b
  ELSE IF v.t = "string" THEN v.s # <<>>
  ELSE IF v.t = "number"
    THEN \E k \in 1..Len(v.s) :
           /\ v.s[k] \in 49..57
           /\ \A j \in 1..k : v.s[j] \notin {101, 69}
  ELSE TRUE

\* 64 MiB, the chunk size of a code that carries none (line 57).
DefaultChunkSize == 64 * 1024 * 1024
\* 16 MiB (line 52)
HighPerformanceAbove == 16 * 1024 * 1024

NoResult ==
  [sdp |-> Undefined, iceServer |-> Undefined, chunkSize |-> [isNaN |-> TRUE, value |-> 0],
   publicKey |-> Undefined, highPerformance |-> FALSE]

\* Lines 52-60, data being what JSON.parse returned.
DecodedResult(data) ==
  LET s == Get(data, <<115>>)
      i == Get(data, <<105>>)
      c == Get(data, <<99>>)
      p == Get(data, <<112>>)
      h == Get(data, <<104>>)
  IN [sdp |-> s,
      iceServer |-> IF IsTruthy(i) THEN i ELSE Undefined,
      chunkSize |-> IF IsTruthy(c) THEN ParseInt(ToChars(ToText(c)))
                    ELSE [isNaN |-> FALSE, value |-> DefaultChunkSize],
      publicKey |-> IF IsTruthy(p) THEN p ELSE Undefined,
      highPerformance |->
        \/ h = Str(<<49>>)
        \/ ~ToNumber(c).isNaN /\ ToNumber(c).value > HighPerformanceAbove]

\* parseUniqueCode(code): whatever is thrown inside the try block - by atob, by
\* JSON.parse, by reading a property of null - is replaced by
\* Error('Invalid code format').
ParseUniqueCode(str) ==
  LET jsonData == Base64UrlDecode(str)
      data == JsonParse(jsonData.text)
  IN IF ~jsonData.ok \/ ~data.ok \/ data.val.t = "null"
       THEN [threw |-> TRUE, message |-> "Invalid code format", result |-> NoResult]
       ELSE [threw |-> FALSE, message |-> "", result |-> DecodedResult(data.val)]

\* ---- generateUniqueCode (uniqueCode.ts 11-33)
MaxSdpLen == 2

\* The characters sdp strings are made of: v, carriage return, the double quote,
\* the backslash, e with acute accent (0xE9) and the euro sign (0x20AC).
SdpAlphabet == {118, 13, 34, 92, 233, 8364}

\* chunkSize arguments: 0, 1 KiB, 16 MiB, 16 MiB + 1
ChunkSizeArgs == {0, 1024, HighPerformanceAbove, HighPerformanceAbove + 1}

\* n.toString() of a non-negative integer
RECURSIVE DecimalText(_)
DecimalText(n) ==
  IF n < 10 THEN <<48 + n>> ELSE Append(DecimalText(n \div 10), 48 + (n % 10))

HexChar(d) == IF d < 10 THEN 48 + d ELSE 87 + d

\* JSON.stringify of a string from position i on: the quote, the backslash and
\* the control characters are escaped, and so is a surrogate without its partner.
RECURSIVE QuoteFrom(_, _)
QuoteFrom(s, i) ==
  LET c == At(s, i)
      u == <<92, 117, HexChar(c \div 4096), HexChar((c \div 256) % 16),
             HexChar((c \div 16) % 16), HexChar(c % 16)>>
  IN IF i > Len(s) THEN <<34>>
     ELSE IF c \in 55296..56319 /\ At(s, i + 1) \in 56320..57343
       THEN <<c, s[i + 1]>> \o QuoteFrom(s, i + 2)
     ELSE (IF c \in {34, 92} THEN <<92, c>>
           ELSE IF c = 8 THEN <<92, 98>>
           ELSE IF c = 12 THEN <<92, 102>>
           ELSE IF c = 10 THEN <<92, 110>>
           ELSE IF c = 13 THEN <<92, 114>>
           ELSE IF c = 9 THEN <<92, 116>>
           ELSE IF c < 32 \/ c \in 55296..57343 THEN u
           ELSE <<c>>)
            \o QuoteFrom(s, i + 1)

Quote(s) == <<34>> \o QuoteFrom(s, 1)

\* JSON.stringify(v): the members of an object in their order, undefined ones
\* left out; undefined elements of an array written null.
RECURSIVE JsonStringify(_)
RECURSIVE StringifyItems(_, _, _, _)
JsonStringify(v) ==
  IF v.t = "string" THEN Quote(v.s)
  ELSE IF v.t = "number" THEN v.s
  ELSE IF v.t = "boolean"
    THEN IF v.b THEN <<116, 114, 117, 101>> ELSE <<102, 97, 108, 115, 101>>
  ELSE IF v.t = "array" THEN <<91>> \o StringifyItems(v.items, 1, FALSE, TRUE) \o <<93>>
  ELSE IF v.t = "object" THEN <<123>> \o StringifyItems(v.items, 1, TRUE, TRUE) \o <<125>>
  ELSE <<110, 117, 108, 108>>

\* The items from the k-th on; first: nothing has been written yet.
StringifyItems(items, k, keyed, first) ==
  IF k > Len(items) THEN <<>>
  ELSE IF keyed /\ items[k].val.t = "undefined"
    THEN StringifyItems(items, k + 1, keyed, first)
  ELSE (IF first THEN <<>> ELSE <<44>>)
         \o (IF keyed THEN Quote(items[k].key) \o <<58>> ELSE <<>>)
         \o JsonStringify(items[k].val)
         \o StringifyItems(items, k + 1, keyed, FALSE)

NoOptions ==
  [iceServer |-> Undefined, chunkSize |-> Undefined, publicKey |-> Undefined,
   highPerformance |-> Undefined]

\* generateUniqueCode(sdp, options); ok is FALSE where btoa throws.
GenerateUniqueCode(str, opts) ==
  LET data ==
        Obj(<<[key |-> <<115>>, val |-> Str(str)],
              [key |-> <<105>>,
               val |-> IF IsTruthy(opts.iceServer) THEN opts.iceServer ELSE Str(<<>>)],
              [key |-> <<99>>,
               val |-> IF IsTruthy(opts.chunkSize) THEN Str(ToText(opts.chunkSize))
                       ELSE Str(DecimalText(DefaultChunkSize))],
              [key |-> <<112>>,
               val |-> IF IsTruthy(opts.publicKey) THEN opts.publicKey ELSE Str(<<>>)],
              [key |-> <<104>>,
               val |-> IF IsTruthy(opts.highPerformance) THEN Str(<<49>>)
                       ELSE Str(<<48>>)]>>)
      jsonData == JsonStringify(data)
  IN Base64UrlEncode(jsonData)

\* JSON texts whose codes are tried besides the short codes.
Documents ==
  {
    \* null
    <<110, 117, 108, 108>>,
    \* 1
    <<49>>,
    \* []
    <<91, 93>>,
    \* {"s":"v=0","i":"","c":"1024","p":"","h":"0"}
    <<123, 34, 115, 34, 58, 34, 118, 61, 48, 34, 44, 34, 105, 34, 58, 34,
    34, 44, 34, 99, 34, 58, 34, 49, 48, 50, 52, 34, 44, 34, 112, 34, 58, 34,
    34, 44, 34, 104, 34, 58, 34, 48, 34, 125>>,
    \* {"c":"20000000"}
    <<123, 34, 99, 34, 58, 34, 50, 48, 48, 48, 48, 48, 48, 48, 34, 125>>
  }

RECURSIVE SeqsUpTo(_, _)
SeqsUpTo(S, n) ==
  IF n = 0 THEN {<<>>}
  ELSE LET shorter == SeqsUpTo(S, n - 1)
       IN shorter \cup {Append(q, c) : q \in {r \in shorter : Len(r) = n - 1}, c \in S}

Codes ==
  SeqsUpTo(CodeAlphabet, MaxCodeLen) \cup {Base64UrlEncode(d).text : d \in Documents}

CodeIdle ==
  /\ sdp = <<>> /\ options = NoOptions
  /\ code = <<>> /\ codeState = "idle" /\ codeResult = NoResult /\ codeError = ""

\* parseUniqueCode is about to be called with some string.
CodeInit ==
  /\ sdp = <<>> /\ options = NoOptions
  /\ code \in Codes
  /\ codeState = "init" /\ codeResult = NoResult /\ codeError = ""

\* generateUniqueCode is about to be called, each option given or left out; the
\* strings given for iceServer and publicKey are 's' and 'k', or empty.
RoundTripInit ==
  /\ sdp \in SeqsUpTo(SdpAlphabet, MaxSdpLen)
  /\ options \in
       [iceServer : {Undefined, Str(<<>>), Str(<<115>>)},
        chunkSize : {Undefined} \cup {Num(DecimalText(n)) : n \in ChunkSizeArgs},
        publicKey : {Undefined, Str(<<>>), Str(<<107>>)},
        highPerformance : {Undefined, Bool(FALSE), Bool(TRUE)}]
  /\ code = <<>> /\ codeState = "generate" /\ codeResult = NoResult /\ codeError = ""

\* The code is generated and handed over for parsing.
GenerateCode ==
  /\ codeState = "generate"
  /\ LET g == GenerateUniqueCode(sdp, options)
     IN /\ code' = g.text
        /\ codeState' = IF g.ok THEN "init" ELSE "generateThrew"
  /\ UNCHANGED <<sdp, options, codeResult, codeError>>
  /\ CodeOnly

ParseCode ==
  /\ codeState = "init"
  /\ LET r == ParseUniqueCode(code)
     IN /\ codeState' = IF r.threw THEN "threw" ELSE "returned"
        /\ codeResult' = r.result
        /\ codeError' = r.message
  /\ UNCHANGED <<sdp, options, code>>
  /\ CodeOnly

CodeNext == ParseCode

RoundTripNext ==
  \/ GenerateCode
  \/ ParseCode

(***************************************************************************)
(* The receiver of one file                                                *)
(*                                                                         *)
(* The sources declare the receiver's state (ReceivingFile: receivedSize,  *)
(* receivedChunks) and configure the channel the frames travel on          *)
(* (createOptimizedFileChannel: unordered from 100 MiB on); the handler of *)
(* incoming frames is not among them and is modelled from the Receiver     *)
(* Engine of the specification: a frame that would exceed the maximum size *)
(* fails the session, otherwise it is stored under its offset and counted, *)
(* and when the count equals the declared size the stored ranges are       *)
(* concatenated in offset order.  The channel delivers the frames one by   *)
(* one in any order.  Payloads are taken as they travel; what the cipher   *)
(* does to them is the matter of SpecCipher.                               *)
(***************************************************************************)
MaxFileLen == 4
MaxFrameSize == 2
MaxFileByte == 1

\* The sender's frames: consecutive ranges of frameSize bytes, the last one
\* shorter, each with its sequence index and byte offset.
ChunkFrames(data, size) ==
  { [index |-> k,
     offset |-> (k - 1) * size,
     payload |-> SubSeq(data, (k - 1) * size + 1, Min(k * size, Len(data)))] :
    k \in 1..((Len(data) + size - 1) \div size) }

\* The stored ranges one after the other, the earliest arrival first.
RECURSIVE AssembleInArrivalOrder(_)
AssembleInArrivalOrder(stored) ==
  IF stored = {} THEN <<>>
  ELSE LET first == CHOOSE f \in stored : \A g \in stored : f.arrival <= g.arrival
       IN first.payload \o AssembleInArrivalOrder(stored \ {first})

\* The stored ranges one after the other, the lowest offset first.
RECURSIVE Assemble(_)
Assemble(stored) ==
  IF stored = {} THEN <<>>
  ELSE LET first == CHOOSE f \in stored : \A g \in stored : f.offset <= g.offset
       IN first.payload \o Assemble(stored \ {first})

ReceiverIdle ==
  /\ sentFile = <<>> /\ frameSize = 1 /\ receiverMaxSize = 0 /\ onTheWire = {}
  /\ receivedSize = 0 /\ receivedChunks = {} /\ assembledFile = <<>>
  /\ receiverStatus = "Idle"

\* The sender has framed the file and handed every frame to the channel; the
\* receiver knows the declared size and has received nothing.
ReceiverInit ==
  /\ sentFile \in ByteSeqs(MaxFileLen, MaxFileByte)
  /\ frameSize \in 1..MaxFrameSize
  /\ receiverMaxSize \in {MaxFileLen - 1, MaxFileLen}
  /\ onTheWire = ChunkFrames(sentFile, frameSize)
  /\ receivedSize = 0 /\ receivedChunks = {} /\ assembledFile = <<>>
  /\ receiverStatus = "Receiving"

\* A frame arrives.
FrameArrives(f) ==
  /\ receiverStatus = "Receiving"
  /\ f \in onTheWire
  /\ onTheWire' = onTheWire \ {f}
  /\ IF receivedSize + Len(f.payload) > receiverMaxSize
       THEN /\ receiverStatus' = "Failed"
            /\ UNCHANGED <<receivedSize, receivedChunks, assembledFile>>
       ELSE LET stored ==
                  { g \in receivedChunks : g.offset # f.offset }
                    \cup {[offset |-> f.offset, payload |-> f.payload,
                           arrival |-> Cardinality(receivedChunks) + 1]}
            IN /\ receivedChunks' = stored
               /\ receivedSize' = receivedSize + Len(f.payload)
               /\ IF receivedSize + Len(f.payload) = Len(sentFile)
                    THEN /\ assembledFile' = Assemble(stored)
                         /\ receiverStatus' = "Success"
                    ELSE UNCHANGED <<assembledFile, receiverStatus>>
  /\ UNCHANGED <<sentFile, frameSize, receiverMaxSize>>
  /\ ReceiverOnly

\* No frame arrives within the per-chunk timeout.
ReceiveTimesOut ==
  /\ receiverStatus = "Receiving"
  /\ receiverStatus' = "Failed"
  /\ UNCHANGED <<sentFile, frameSize, receiverMaxSize, onTheWire, receivedSize,
                 receivedChunks, assembledFile>>
  /\ ReceiverOnly

ReceiverNext ==
  \/ \E f \in onTheWire : FrameArrives(f)
  \/ ReceiveTimesOut

LinkIdle == ChannelIdle /\ CodeIdle /\ ReceiverIdle

(***************************************************************************)
(* The specifications                                                      *)
(***************************************************************************)
CodecIdle == ValidateIdle /\ PackIdle /\ ViewIdle /\ TierIdle /\ ProbeIdle
EngineInitIdle == SendIdle /\ KeyIdle /\ ParIdle /\ CipherIdle /\ LinkIdle

Init ==
  SendInit /\ KeyIdle /\ ParIdle /\ CipherIdle /\ TransferIdle /\ CodecIdle /\ LinkIdle
Next == SendNext
Spec == Init /\ [][Next]_vars

\* throttledSend with the event loop and the channel making progress: a call is
\* made, a due timer callback runs, a queued event is dispatched, and an open
\* channel goes on transmitting what it has buffered.
SpecSendFair ==
  /\ Init /\ [][Next]_vars
  /\ WF_vars(ThrottledSend)
  /\ WF_vars(TimerFires)
  /\ WF_vars(BufferedAmountLowFires)
  /\ WF_vars(BufferedAmountLowUnhandled)
  /\ WF_vars(ChannelDrains)

InitKeyStore ==
  SendIdle /\ KeyInit /\ ParIdle /\ CipherIdle /\ TransferIdle /\ CodecIdle /\ LinkIdle
NextKeyStore == KeyNext
SpecKeyStore == InitKeyStore /\ [][NextKeyStore]_vars

InitParallel ==
  SendIdle /\ KeyIdle /\ ParInit /\ CipherIdle /\ TransferIdle /\ CodecIdle /\ LinkIdle
NextParallel == ParNext
SpecParallel == InitParallel /\ [][NextParallel]_vars

InitCipher ==
  SendIdle /\ KeyIdle /\ ParIdle /\ CipherInit /\ TransferIdle /\ CodecIdle /\ LinkIdle
NextCipher == CipherNext
SpecCipher == InitCipher /\ [][NextCipher]_vars

InitTransfer == EngineInitIdle /\ TransferInit /\ CodecIdle
NextTransfer == TransferNext
SpecTransfer == InitTransfer /\ [][NextTransfer]_vars

InitValidate ==
  /\ EngineInitIdle /\ TransferIdle
  /\ ValidateInit /\ PackIdle /\ ViewIdle /\ TierIdle /\ ProbeIdle
NextValidate == ValidateNext
SpecValidate == InitValidate /\ [][NextValidate]_vars

InitPack ==
  /\ EngineInitIdle /\ TransferIdle
  /\ ValidateIdle /\ PackInit /\ ViewIdle /\ TierIdle /\ ProbeIdle
NextPack == PackNext
SpecPack == InitPack /\ [][NextPack]_vars

InitView ==
  /\ EngineInitIdle /\ TransferIdle
  /\ ValidateIdle /\ PackIdle /\ ViewInit /\ TierIdle /\ ProbeIdle
NextView == ViewNext
SpecView == InitView /\ [][NextView]_vars

InitTier ==
  /\ EngineInitIdle /\ TransferIdle
  /\ ValidateIdle /\ PackIdle /\ ViewIdle /\ TierInit /\ ProbeIdle
NextTier == TierNext
SpecTier == InitTier /\ [][NextTier]_vars

\* The event loop runs every callback that is due: the timer of the probe
\* fires, so a step of the probe that can be taken is taken.
InitProbe ==
  /\ EngineInitIdle /\ TransferIdle
  /\ ValidateIdle /\ PackIdle /\ ViewIdle /\ TierIdle /\ ProbeInit
NextProbe == ProbeNext
SpecProbe == InitProbe /\ [][NextProbe]_vars /\ WF_vars(NextProbe)

OtherPartsIdle == SendIdle /\ KeyIdle /\ ParIdle /\ CipherIdle /\ TransferIdle /\ CodecIdle

InitChannel == OtherPartsIdle /\ ChannelInit /\ CodeIdle /\ ReceiverIdle
NextChannel == ChannelNext
SpecChannel == InitChannel /\ [][NextChannel]_vars

InitCode == OtherPartsIdle /\ ChannelIdle /\ CodeInit /\ ReceiverIdle
NextCode == CodeNext
SpecCode == InitCode /\ [][NextCode]_vars

InitRoundTrip == OtherPartsIdle /\ ChannelIdle /\ RoundTripInit /\ ReceiverIdle
NextRoundTrip == RoundTripNext
SpecRoundTrip == InitRoundTrip /\ [][NextRoundTrip]_vars

InitReceiver == OtherPartsIdle /\ ChannelIdle /\ CodeIdle /\ ReceiverInit
NextReceiver == ReceiverNext
SpecReceiver == InitReceiver /\ [][NextReceiver]_vars

(***************************************************************************)
(* Properties of throttledSend (Spec)                                      *)
(***************************************************************************)
\* Math.ceil(fileSize / chunkSize)
NumChunks == (fileSize + chunkSize - 1) \div chunkSize

\* C1: channel.send is never called while bufferedAmount is above
\* bufferedAmountLowThreshold, and an invocation of sendNextChunk that finds data
\* left and the buffer above the mark calls no send, schedules no timer and leaves
\* itself registered as the bufferedamountlow handler.
C1_SendOnlyBelowMark ==
  [][ /\ (sendCalls' > sendCalls => bufferedAmount <= threshold)
      /\ (invocations' > invocations /\ currentPosition < fileSize
            /\ bufferedAmount > threshold
          => /\ sendCalls' = sendCalls
             /\ sentLog' = sentLog
             /\ timers' <= timers
             /\ handler') ]_vars

\* The sender is suspended: chunks were sent, more remain, the buffer is above the
\* mark, the handler is registered and no timer is pending.
C1_Witness ==
  /\ promise = "pending" /\ handler /\ timers = 0
  /\ Len(sentLog) >= 1 /\ currentPosition < fileSize
  /\ bufferedAmount > threshold

\* C2: whatever the interleaving of timer and bufferedamountlow callbacks, the
\* messages accepted by channel.send are the ranges [k*chunkSize,
\* min((k+1)*chunkSize, fileSize)) for k = 0, 1, ... in this order, each once, and
\* the promise is resolved only when all of them have been sent.
C2_RangesInOrder ==
  /\ \A k \in 1..Len(sentLog) :
       /\ sentLog[k].from = (k - 1) * chunkSize
       /\ sentLog[k].to = Min(k * chunkSize, fileSize)
  /\ Len(sentLog) <= NumChunks
  /\ promise = "resolved" => Len(sentLog) = NumChunks

\* A timer callback and a bufferedamountlow event are pending at once, the handler
\* still registered, in the middle of a transfer.
C2_Witness ==
  /\ timers >= 1 /\ lowEvents >= 1 /\ handler
  /\ Len(sentLog) >= 2 /\ currentPosition < fileSize

\* C3: a transfer fails only after RetryAttempts sends have thrown.
C3_RetriesBeforeFailing == promise = "rejected" => failedSends >= RetryAttempts

(***************************************************************************)
(* Properties of the AES-GCM envelope (SpecCipher)                         *)
(***************************************************************************)
\* C4: decrypting what was encrypted under the same key succeeds and gives the
\* plaintext back.
C4_RoundTrip ==
  cipherState \in {"decrypted", "decryptFailed"}
    => cipherState = "decrypted" /\ decrypted = message

(***************************************************************************)
(* Properties of the session-key store (SpecKeyStore)                      *)
(***************************************************************************)
\* C5: initialize constructs the rendezvous RTCPeerConnection at most once.
C5_OneRendezvousConnection == peerConnections <= 1

\* C6: a checkAndRotateSessionKey(ttl) call that follows a completed
\* checkAndRotateSessionKey(ttl) call, no key stored in between, and finds the key
\* within ttl of its creation, rotates nothing.
C6_NoRotationWithinTtl ==
  \A p \in Callers :
    /\ calls[p].op = "check" /\ calls[p].pc = "done"
    /\ calls[p].afterCheck
    /\ calls[p].age <= calls[p].ttl * MsPerMinute
    => calls[p].rotations = 0

\* The key the call found was stale: none, a timestamp that does not parse, or a
\* timestamp more than ttl minutes before the call read the clock.
FoundStale(c) ==
  \/ c.found = NoKey
  \/ ParseInt(SubSeq(c.found.text, 1, TimestampChars)).isNaN
  \/ c.decidedAt - ParseInt(SubSeq(c.found.text, 1, TimestampChars)).value
       > c.ttl * MsPerMinute

C8_KeyCarriesCreationTime ==
  sessionKeyCache # NoKey /\ sessionKeyCache.id >= 1
    => LET timestamp == ParseInt(SubSeq(sessionKeyCache.text, 1, TimestampChars))
       IN ~timestamp.isNaN /\ timestamp.value = createdAt

(***************************************************************************)
(* Properties of processChunksParallel (SpecParallel)                      *)
(***************************************************************************)
InFlight == { i \in 1..Len(chunks) : procState[i] = "running" }

\* C9: never more than concurrency processor invocations are in flight, and a
\* chunk of a later batch is started only when every promise of the earlier
\* batches has resolved.
C9_BoundedBatches ==
  /\ Cardinality(InFlight) <= concurrency
  /\ \A i, j \in 1..Len(chunks) :
       batchNo[i] >= 1 /\ batchNo[j] > batchNo[i] => procState[i] = "resolved"

\* A second batch is running at full width.
C9_Witness ==
  /\ concurrency >= 2
  /\ Cardinality(InFlight) = concurrency
  /\ \A i \in InFlight : batchNo[i] = 2

\* C10: each chunk is passed to the processor at most once, and when
\* processChunksParallel returns, every chunk has been passed once and results[i]
\* is what the processor gave for chunks[i], whatever the order of completion.
C10_ResultsInChunkOrder ==
  /\ \A a, b \in 1..Len(startLog) : startLog[a] = startLog[b] => a = b
  /\ parState = "done"
       => /\ Len(results) = Len(chunks)
          /\ \A i \in 1..Len(chunks) : results[i] = Processor(chunks[i])
          /\ startLog = [i \in 1..Len(chunks) |-> i]

\* The call has returned although the promises of a batch of two different chunks
\* resolved in the reverse of their order in the list.
C10_Witness ==
  /\ parState = "done"
  /\ \E a, b \in 1..Len(doneLog) :
       /\ a < b /\ doneLog[a] > doneLog[b]
       /\ batchNo[doneLog[a]] = batchNo[doneLog[b]]
       /\ chunks[doneLog[a]] # chunks[doneLog[b]]

(***************************************************************************)
(* Properties of progressiveFileTransfer (SpecTransfer)                    *)
(***************************************************************************)
\* C11: once the cancellation signal has been raised during a transfer, the
\* loop stops at the next chunk boundary: the sender is handed no chunk
\* beyond the ones it had been handed when the signal was raised, and the
\* transfer does not run to completion.
C11_StopsAtNextBoundary ==
  signalAborted =>
    /\ senderCalls <= abortedAt
    /\ (transferState = "resolved" => transferOffset < dataByteLength)

\* C12: the percentages passed to onProgress are strictly increasing and
\* each lies in 1..100, so the callback runs at most 100 times.
C12_ProgressThrottled ==
  /\ \A i \in 1..Len(progressLog) : progressLog[i] \in 1..100
  /\ \A i \in 1..(Len(progressLog) - 1) : progressLog[i] < progressLog[i + 1]
  /\ Len(progressLog) <= 100

\* A transfer of more than 100 chunks has completed and the callback ran
\* for whole-percent advances only.
C12_Witness ==
  /\ transferState = "resolved"
  /\ onProgress
  /\ senderCalls > 100
  /\ Len(progressLog) \in 1..100

\* C13: a transfer that completes with onProgress supplied has invoked it,
\* and its last invocation reported 100, for every data length (0 included).
C13_ReportsCompletion ==
  (transferState = "resolved" /\ onProgress) =>
    /\ Len(progressLog) >= 1
    /\ progressLog[Len(progressLog)] = 100

(***************************************************************************)
(* Properties of validateFileMetadata (SpecValidate)                       *)
(***************************************************************************)
\* C14: with a numeric maxSize N >= 0, validateFileMetadata returns an error
\* when the declared size is greater than N and none when it is at most N.
C14_RejectsAboveMaxSize ==
  (validation # "none" /\ maxSize # <<>>) =>
    (validation = "error" <=> metadataSize > maxSize[1])

(***************************************************************************)
(* Properties of concatUint8Arrays / splitUint8Array (SpecPack)            *)
(***************************************************************************)
\* C15: splitUint8Array(concatUint8Arrays(A, B)) returns exactly (A, B), for
\* every A and B, empty A and A of 65536 bytes or more included.
C15_PackRoundTrip ==
  packState = "roundTrip" =>
    /\ ~splitResult.threw
    /\ splitResult.array1 = array1
    /\ splitResult.array2 = array2

\* C16: splitUint8Array fails, instead of returning a pair, whenever the
\* length declared in the two-byte prefix exceeds the number of bytes
\* present after the prefix.
C16_SplitRejectsShortBuffer ==
  (/\ packState \in {"split", "roundTrip"}
   /\ ByteLength(combinedArray) >= 2
   /\ ByteAt(combinedArray, 0) + 256 * ByteAt(combinedArray, 1)
        > ByteLength(combinedArray) - 2)
    => splitResult.threw

(***************************************************************************)
(* Properties of createOptimizedChunks (SpecView)                          *)
(***************************************************************************)
\* C17: the returned views are contiguous, non-overlapping and in order and
\* cover bytes [0, len(data)) exactly once; empty data yields no chunks and
\* every chunk is non-empty.
C17_ViewsCoverData ==
  viewState = "returned" =>
    /\ \A i \in 1..Len(views) : views[i].begin < views[i].end
    /\ \A i \in 1..(Len(views) - 1) : views[i].end = views[i + 1].begin
    /\ (viewedByteLength = 0 <=> views = <<>>)
    /\ views # <<>> =>
         views[1].begin = 0 /\ views[Len(views)].end = viewedByteLength

\* Data of more than one chunk, the last one a partial chunk.
C17_Witness ==
  /\ viewState = "returned"
  /\ Len(views) >= 2
  /\ views[Len(views)].end - views[Len(views)].begin < views[1].end - views[1].begin

\* C18 (as stated): every returned chunk has length at most the chunkSize
\* argument, for every chunkSize >= 1.
C18_ChunksWithinChunkSize ==
  (viewState = "returned" /\ viewChunkSize >= 1) =>
    \A i \in 1..Len(views) : views[i].end - views[i].begin <= viewChunkSize

\* C18 (amended): every returned chunk has length at most the larger of the
\* chunkSize argument and 16 MiB.
C18_ChunksWithinFlooredChunkSize ==
  viewState = "returned" =>
    \A i \in 1..Len(views) :
      views[i].end - views[i].begin
        <= (IF viewChunkSize >= 16777216 THEN viewChunkSize ELSE 16777216)

\* A chunk of 16 MiB returned for a smaller chunkSize argument.
C18_Witness ==
  /\ viewState = "returned"
  /\ viewChunkSize \in 1..16777215
  /\ \E i \in 1..Len(views) : views[i].end - views[i].begin = 16777216

(***************************************************************************)
(* Properties of calculateOptimalChunkSize (SpecTier)                      *)
(***************************************************************************)
\* s <= m MiB, for a file size s in whole MiB and remaining bytes
AtMostMiB(s, m) == s.mib < m \/ (s.mib = m /\ s.rem = 0)

\* The documented tier of a file size, in MiB.
DocumentedTier(s) ==
  IF AtMostMiB(s, 100) THEN 4
  ELSE IF AtMostMiB(s, 1024) THEN 16
  ELSE IF AtMostMiB(s, 10240) THEN 64
  ELSE 128

\* C19: calculateOptimalChunkSize is monotonically non-decreasing and equals
\* 4 MiB up to 100 MiB, 16 MiB up to 1 GiB, 64 MiB up to 10 GiB and 128 MiB
\* above, the boundary values falling in the lower tier.
C19_TiersMonotone ==
  tierState = "returned" =>
    /\ \A i \in 1..2 : tierResults[i] = DocumentedTier(tierSizes[i]) * 1048576
    /\ (\/ tierSizes[1].mib < tierSizes[2].mib
        \/ (tierSizes[1].mib = tierSizes[2].mib /\ tierSizes[1].rem <= tierSizes[2].rem))
         => tierResults[1] <= tierResults[2]

\* The boundary 10 GiB and the byte after it.
C19_Witness ==
  /\ tierState = "returned"
  /\ tierSizes[1] = [mib |-> 10240, rem |-> 0]
  /\ tierSizes[2] = [mib |-> 10240, rem |-> 1]
  /\ tierResults[1] < tierResults[2]

(***************************************************************************)
(* Properties of measureNetworkAndOptimizeChunkSize (SpecProbe)            *)
(***************************************************************************)
\* What the call returned agrees with the probe's outcome.
ProbeResultAsDocumented ==
  LET base == DocumentedTier(probeFileSize) * 1048576
      doubled == IF 2 * base <= 134217728 THEN 2 * base ELSE 134217728
      halved == IF base \div 2 >= 1048576 THEN base \div 2 ELSE 1048576
  IN  /\ probeOutcome \in {"createThrew", "sendThrew"} => optimizedChunkSize = base
      /\ probeOutcome \in {"sent", "timedOut"} =>
           /\ duration < 20 => optimizedChunkSize = doubled
           /\ duration > 200 => optimizedChunkSize = halved
           /\ duration \in 20..200 => optimizedChunkSize = base
      /\ probeOutcome = "timedOut" => duration >= 3000
      /\ optimizedChunkSize \in 1048576..134217728

\* C20: the call returns min(128 MiB, 2 * base) for a throughput above the
\* high-speed threshold, max(1 MiB, base / 2) below the low-speed threshold
\* and base otherwise or when the probe fails; the result lies in
\* [1 MiB, 128 MiB]; and the call always returns, a channel that never opens
\* being handled by the 3-second timer.
C20_ProbeAdjustsAndReturns ==
  /\ [](probeState = "returned" => ProbeResultAsDocumented)
  /\ <>(probeState = "returned")

\* The channel never opened and the timer ended the probe of a file of more
\* than 10 GiB.
C20_Witness ==
  /\ probeState = "returned"
  /\ probeOutcome = "timedOut"
  /\ probeFileSize.mib > 10240
  /\ optimizedChunkSize = 67108864

(***************************************************************************)
(* Further properties of throttledSend (Spec, SpecSendFair)                *)
(***************************************************************************)
\* C23: if the channel closes while throttledSend is suspended waiting for
\* bufferedamountlow, the promise is eventually rejected and does not stay
\* pending forever: with the channel closed and the promise pending, a
\* callback that will settle it is still to run.
C23_CloseEndsTransfer ==
  (readyState = "closed" /\ promise = "pending") => (timers > 0 \/ lowEvents > 0)

\* C26: if channel.send never throws and the channel stays open and fires
\* bufferedamountlow at every fall to the threshold, throttledSend eventually
\* resolves; for empty data it resolves at once, without a send call.
C26_EventuallyResolves ==
  /\ [](failedSends = 0 /\ readyState = "open") => <>(promise = "resolved")
  /\ []((fileSize = 0 /\ promise # "none") => (promise = "resolved" /\ sendCalls = 0))

\* A transfer that waited for bufferedamountlow has resolved.
C26_Witness ==
  /\ promise = "resolved"
  /\ failedSends = 0 /\ readyState = "open"
  /\ Len(sentLog) >= 2
  /\ invocations > Len(sentLog) + 1

\* C27: after a channel.send call has thrown, the promise is rejected and
\* throttledSend makes no further channel.send call, whatever timer and
\* bufferedamountlow callbacks were already scheduled.
C27_NoSendAfterFailure ==
  [][failedSends >= 1 => (promise = "rejected" /\ sendCalls' = sendCalls)]_vars

\* C28: immediately after each channel.send call of throttledSend the
\* channel's buffered amount is at most bufferedAmountLowThreshold + chunkSize.
C28_BufferBounded ==
  [][sendCalls' > sendCalls => bufferedAmount' <= threshold + chunkSize]_vars

\* A send has just left the buffer exactly one chunk above the threshold.
C28_Witness ==
  /\ sentLog # <<>>
  /\ sentLog[Len(sentLog)].buffered = threshold
  /\ sentLog[Len(sentLog)].to - sentLog[Len(sentLog)].from = chunkSize
  /\ bufferedAmount = threshold + chunkSize

(***************************************************************************)
(* Further properties of processChunksParallel (SpecParallel)              *)
(***************************************************************************)
\* C29: once a processor promise of a batch has rejected, processChunksParallel
\* does not return results and rejects, and no chunk of a later batch is ever
\* passed to the processor.
C29_RejectionStopsBatches ==
  /\ \A i \in 1..Len(chunks) :
       procState[i] = "rejected" =>
         /\ parState \in {"awaiting", "failed"}
         /\ \A j \in 1..Len(chunks) :
              IF batchNo[j] = batchNo[i]
              THEN procState[j] # "idle"
              ELSE j < i <=> procState[j] = "resolved"
         /\ \A j \in 1..Len(chunks) : j > i /\ batchNo[j] # batchNo[i] => procState[j] = "idle"
  /\ parState = "failed" => \E k \in 1..Len(batch) : procState[batch[k]] = "rejected"

\* The call has rejected with chunks of later batches left, never started.
C29_Witness ==
  /\ parState = "failed"
  /\ index < Len(chunks)
  /\ \E i \in 1..Len(chunks) : procState[i] = "resolved" /\ batchNo[i] = batchNo[batch[1]]

(***************************************************************************)
(* Further properties of the AES-GCM envelope (SpecCipher)                 *)
(***************************************************************************)
\* C24: no two AES-GCM encryption operations under the same key use the same
\* IV; the sub-ranges of one message are encrypted with distinct IVs.
C24_NoIvReuse ==
  \A i, j \in 1..Len(encryptCalls) :
    (i # j /\ encryptCalls[i].key = encryptCalls[j].key)
      => encryptCalls[i].iv # encryptCalls[j].iv

(***************************************************************************)
(* Session key creation by concurrent encryptions (SpecKeyStore)           *)
(***************************************************************************)
\* C25: tripleLayerEncrypt calls running concurrently on a store that holds no
\* session key create one session key between them: of two such calls, neither
\* of which has failed, at most one has run rotateSessionKey.
C25_OneSessionKey ==
  \A p, q \in Callers :
    /\ p # q
    /\ calls[p].op = "encrypt" /\ calls[p].pc # "failed"
    /\ calls[q].op = "encrypt" /\ calls[q].pc # "failed"
    => calls[p].rotations + calls[q].rotations <= 1

(***************************************************************************)
(* Properties of createReliableDataChannel (SpecChannel)                   *)
(***************************************************************************)
\* C30: with maxRetries = n >= 1 the call makes at most n attempts; when it
\* returns, it returns the channel of the attempt under way, opened within 5 s
\* of the attempt's start, every earlier attempt having failed; when it
\* throws, n attempts have failed, the error is that of the n-th, thrown the
\* moment that attempt failed, and only n - 1 backoff delays were waited.
C30_BoundedAttempts ==
  maxRetries >= 1 =>
    /\ Len(attemptLog) <= maxRetries
    /\ channelState = "returned" =>
         /\ returnedChannel = Len(attemptLog)
         /\ dataChannels[returnedChannel] # "none"
         /\ settledAt <= attemptLog[returnedChannel] + OpenTimeout
         /\ Len(failureLog) = returnedChannel - 1
         /\ \A k \in 1..Len(failureLog) : failureLog[k].error.attempt = k
    /\ channelState = "thrown" =>
         /\ Len(attemptLog) = maxRetries
         /\ Len(failureLog) = maxRetries
         /\ thrownError = failureLog[maxRetries].error
         /\ thrownError.attempt = maxRetries
         /\ settledAt = failureLog[maxRetries].at
         /\ Len(backoffLog) = maxRetries - 1

\* A call with maxRetries 2 has thrown the timeout of its second attempt, its
\* first attempt having failed on an error event.
C30_Witness ==
  /\ maxRetries = 2 /\ channelState = "thrown"
  /\ thrownError = [attempt |-> 2, kind |-> "Data channel open timeout"]
  /\ failureLog[1].error.kind = "error"

(***************************************************************************)
(* Properties of parseUniqueCode (SpecCode)                                *)
(***************************************************************************)
\* The code is the base64url encoding of a JSON object carrying the s field.
IsRendezvousCode(str) ==
  LET jsonData == Base64UrlDecode(str)
      data == JsonParse(jsonData.text)
  IN /\ jsonData.ok /\ data.ok
     /\ data.val.t = "object"
     /\ \E k \in 1..Len(data.val.items) : data.val.items[k].key = <<115>>

\* C21: parseUniqueCode returns a result or throws 'Invalid code format', and
\* a code that is not the base64url encoding of a JSON object carrying s is
\* never answered with a result.
C21_OnlyRendezvousCodesDecoded ==
  /\ codeState = "threw" => codeError = "Invalid code format"
  /\ codeState = "returned" => IsRendezvousCode(code) /\ codeResult.sdp # Undefined

C31_BackoffDoubles ==
  \A k \in 1..Len(backoffLog) :
    /\ k < maxRetries
    /\ backoffLog[k].delay = 1000 * Pow2(k)
    /\ k = 1 => backoffLog[k].delay = 2000
    /\ k > 1 => backoffLog[k].delay = 2 * backoffLog[k - 1].delay
    /\ backoffLog[k].from = failureLog[k].at
    /\ Len(attemptLog) > k => attemptLog[k + 1] >= failureLog[k].at + backoffLog[k].delay
    /\ channelState = "backoff" /\ k = Len(backoffLog) => Len(attemptLog) = k

\* A third attempt has started, after waits of 2000 and 4000 ms.
C31_Witness ==
  /\ Len(attemptLog) = 3
  /\ Len(backoffLog) = 2
  /\ backoffLog[2].delay = 4000
  /\ attemptLog[3] > attemptLog[2]

(***************************************************************************)
(* Properties of generateUniqueCode with parseUniqueCode (SpecRoundTrip)   *)
(***************************************************************************)
\* C32: parseUniqueCode(generateUniqueCode(sdp, options)) returns, with the sdp,
\* iceServer, publicKey and chunkSize that were supplied (undefined for a missing
\* iceServer or publicKey, 67108864 for a missing chunkSize), and with
\* highPerformance true exactly when it was supplied true.
C32_RoundTrip ==
  /\ codeState \notin {"generateThrew", "threw"}
  /\ codeState = "returned" =>
       /\ codeResult.sdp = Str(sdp)
       /\ codeResult.iceServer = options.iceServer
       /\ codeResult.publicKey = options.publicKey
       /\ codeResult.chunkSize =
            IF options.chunkSize = Undefined
              THEN [isNaN |-> FALSE, value |-> 67108864]
              ELSE ToNumber(options.chunkSize)
       /\ codeResult.highPerformance = (options.highPerformance = Bool(TRUE))

====
